---- MODULE Spec2Model ----
(***************************************************************************)
(* A model of metaflow-local-service: the metadata store                   *)
(* (src/src/metaflow_local_service/store.py) over the on-disk .metaflow    *)
(* tree, its task-id and run-id generators, and the service process that   *)
(* owns the in-memory counters (lost whenever the process ends); and the   *)
(* supervisor of that process (src/src/metaflow_local_service/daemon.py):  *)
(* the discovery record in ~/.metaflow-local-service, the daemon processes *)
(* that write and clear it, and the clients that call status, start, stop. *)
(*                                                                         *)
(* The store functions are synchronous and are called from the async route *)
(* handlers of server.py without an intervening await, so inside one       *)
(* service process every store call runs to completion before the next     *)
(* one starts: each call is one action.                                    *)
(***************************************************************************)
EXTENDS Integers, Sequences, FiniteSets, TLC

VARIABLES
    files,          \* .metaflow tree: object key path |-> content of its _meta/_self.json;
                    \* key path of a task \o <<name>> |-> content of the file name in its _meta
    task_counters,  \* store._task_counters: <<flow, run>> |-> last task id issued
    last_run_id,    \* store._last_run_id
    ret,            \* the last store call: its name, arguments and return value
    issued_tasks,   \* history: <<flow, run, id>> for every id _next_task_id returned on this store
    proc_tasks,     \* history: <<flow, run, id>> for every id create_task returned in the running process
    issued_runs,    \* history: every id new_run_id returned on this store
    proc_runs,      \* history: every id new_run_id returned in the running process
    stored_artifacts,   \* history: <<task key, artifact>> for every artifact passed to
                        \* register_artifacts when its (task, attempt, name) held none
    passed_metadata,    \* history: <<task key, entry>> for every entry passed to register_metadata
    state_file,     \* ~/.metaflow-local-service/state.json
    pid_file,       \* ~/.metaflow-local-service/pid
    procs,          \* the daemon processes start() has spawned: pid |-> where it is, its port and root
    starter,        \* client |-> where it is in start(): what it spawned and the polls it has made
    now,            \* time.time() in the daemon process, in seconds since _run_server began
    last_heartbeat_at,  \* server.last_heartbeat_at
    monitor,        \* the thread of _idle_monitor: where it is, idle_timeout, when its
                    \* sleep ends, the silence it found too long
    should_exit,    \* uv_server.should_exit
    counter_lock,   \* store._counter_lock: the thread that holds it, or NoThread
    threads,        \* thread |-> where it is in create_task, the run it names, the id it got
    allocs,         \* history: <<flow, run, id>> for every return of _next_task_id in the
                    \* running process, in the order of the returns
    seeds,          \* history: <<flow, run>> |-> what the scan of the running process found
    tag_requests,   \* handler |-> where it is in the mutate_tags route, and its request
    tag_history,    \* history: the tags of the run before the first mutation served, and
                    \* the mutations served since, in the order they were served
    writers,        \* process |-> where it is in a get_or_create call and in the
                    \* _save_meta under it, the path it writes and the record it built
    temp_files,     \* temporary file name |-> what the file holds
    built,          \* history: <<path, record>> for every record a get_or_create call built
    initialized,    \* store._initialized
    datastore_root, \* LocalStorage.datastore_root, None until it is assigned
    metadirs,       \* the .metaflow directories setup has made
    setup_lock,     \* store._setup_lock: the thread that holds it, or NoThread
    setup_threads,  \* thread |-> where it is in setup, and the root it was called with
    initializations \* history: the roots setup has pointed the store at, in order

\* the histories of what was registered under the tasks
registryVars == <<stored_artifacts, passed_metadata>>

\* the discovery record, the daemon processes and the client that starts one
daemonVars == <<state_file, pid_file, procs, starter>>

\* the idle monitor of a daemon and what it reads and writes
idleVars == <<now, last_heartbeat_at, monitor, should_exit>>

\* the threads that allocate task ids, the lock they take and their returns
allocVars == <<counter_lock, threads, allocs, seeds>>

\* the tag mutation requests in flight and those served
requestVars == <<tag_requests, tag_history>>

\* what the service process holds besides the store
\* the processes that write one path side by side and their temporary files
writeVars == <<writers, temp_files, built>>

\* what the actions of one service process leave alone
\* what setup reads and writes
setupVars == <<initialized, datastore_root, metadirs, setup_lock, setup_threads,
               initializations>>

extraVars == <<writeVars, setupVars>>

serviceVars == <<idleVars, allocVars, requestVars, extraVars>>

\* the store, which no call of the supervisor touches
storeVars == <<files, task_counters, last_run_id, issued_tasks, proc_tasks,
               issued_runs, proc_runs, registryVars>>

vars == <<files, task_counters, last_run_id, ret, issued_tasks, proc_tasks,
          issued_runs, proc_runs, registryVars, daemonVars, serviceVars>>

----------------------------------------------------------------------------
(* Bounds of the model *)

\* create_run is not offered once the logical clock has reached this value
MaxRunId == 1003
\* create_task is not offered once _next_task_id has returned this many ids
MaxTasks == 4
\* start() spawns no daemon once this many have been spawned
MaxDaemons == 2
\* the polls of the liveness endpoint that fit before the deadline of start()
MaxPolls == 2
\* the clock of the daemon does not pass this many seconds
MaxTime == 450
\* no heartbeat is served after this many seconds
HeartbeatsUntil == 60

----------------------------------------------------------------------------
(* Inputs *)

FlowNames == {"F", "G"}
StepNames == {"start", "end"}
\* the flow whose steps and tasks the clients of SpecTasks work on
TaskFlow == "F"

\* Readings of int(time.time() * 1e6). Every call draws any of them, so the
\* wall clock may advance, stall or step backwards between two calls.
WallClock == {1000, 1001}

\* A request body; a field the request leaves out reads as Python-falsy
\* ("" / <<>> / 0), which is what body.get(...) or default tests.
EmptyBody == [user_name |-> "", tags |-> <<>>, system_tags |-> <<>>, ts_epoch |-> 0]
FullBody == [user_name |-> "alice", tags |-> <<"t1">>, system_tags |-> <<"rt">>, ts_epoch |-> 5]
Bodies == {EmptyBody, FullBody}

----------------------------------------------------------------------------
(* Decimal strings: str(int) and int(str), a string being its digits *)

RECURSIVE DecStr(_)
DecStr(n) == IF n < 10 THEN <<n>> ELSE DecStr(n \div 10) \o <<n % 10>>

RECURSIVE DecInt(_)
DecInt(s) == IF Len(s) = 0 THEN 0
             ELSE 10 * DecInt(SubSeq(s, 1, Len(s) - 1)) + s[Len(s)]

\* A run id a client names although no create_run ever returned it
ForeignRun == DecStr(77)

\* The task ids a client names in its artifact and metadata requests, under the
\* step "start" of the run it started
TaskIds == {DecStr(1), DecStr(2)}
RegistryStep == "start"

\* attempt=None of get_artifacts, and attempt=k
NoFilter == <<>>
Attempts == {0, 1}
Filter(k) == <<k>>

\* The artifact records a client registers: two contents for every attempt of
\* the name "x", and one record that leaves attempt_id out
Shas == {"sha0", "sha1"}
Artifacts ==
    {[name |-> "x", attempt_id |-> k, sha |-> h] : k \in Attempts, h \in Shas}
        \cup {[name |-> "x", sha |-> "sha0"]}

\* a.get("attempt_id", 0)
AttemptId(a) == IF "attempt_id" \in DOMAIN a THEN a.attempt_id ELSE 0

\* One request registers one artifact, or one for each of two attempts
ArtifactLists ==
    {<<a>> : a \in Artifacts}
        \cup {<<a, b>> : a \in {x \in Artifacts : AttemptId(x) = 0},
                         b \in {x \in Artifacts : AttemptId(x) = 1}}

\* The metadata entries a client registers; field names are free-form
MetaValues == {"v1", "v2"}
MetaEntries == {[field_name |-> "attempt", value |-> v] : v \in MetaValues}
MetadataLists == {<<m>> : m \in MetaEntries} \cup {<<m, n>> : m, n \in MetaEntries}
\* an entry about where the task put its output
OutputEntry == [field_name |-> "out_artifact_uri", value |-> "v1"]

\* Readings of time.time() in microseconds at two register_metadata calls: the
\* calls fall within the same millisecond or within adjacent ones
MetaClock == {1000, 2000}

\* tags_to_add and tags_to_remove of a tag mutation request
TagLists == {<<>>, <<"t1">>, <<"new">>}

\* start(port, metaflow_root, idle_timeout): the defaults of daemon.py, and
\* another value of each
_DEFAULT_PORT == 0
_DEFAULT_IDLE_TIMEOUT == 300
FixedPort == 8080
ShortIdleTimeout == 60
PortArgs == {_DEFAULT_PORT, FixedPort}
IdleTimeoutArgs == {_DEFAULT_IDLE_TIMEOUT, ShortIdleTimeout}

\* an idle timeout that is shorter than the interval of the idle monitor
BriefIdleTimeout == 20
\* metaflow_root=None, and os.getcwd() of the client
NoRoot == "<None>"
Cwd == "/cwd"
RootArgs == {NoRoot, "/proj"}
\* _find_free_port(): the port the system hands out to the n-th bind to port 0,
\* which no process listens on
EphemeralPort(n) == 50000 + n

\* time.sleep(30) of _idle_monitor
MonitorInterval == 30

\* server.py, _HEARTBEAT_INTERVAL_SECONDS
_HEARTBEAT_INTERVAL_SECONDS == 10
\* the seconds that pass between two events of the daemon process
TimeSteps == {10, 30}

\* the threads of the service process that call create_task side by side
ThreadIds == {"th1", "th2"}
NoThread == "none"

\* the processes that call get_or_create on one .metaflow tree side by side,
\* and the names tempfile.NamedTemporaryFile gives their temporary files
WriterIds == {"p1", "p2"}
TempNames == {"tmp_p1", "tmp_p2"}

\* the handlers of the mutate_tags route that are in flight side by side
HandlerIds == {"h1", "h2"}

\* the client processes that call status, start and stop; the one of them that
\* acts where the clients take turns
Clients == {"c1", "c2"}
OneClient == {"c1"}

----------------------------------------------------------------------------
(* LocalMetadataProvider as the store uses it *)

\* the items of a list: what a loop over it sees, and frozenset(list)
Items(list) == {list[i] : i \in DOMAIN list}

None == [absent |-> TRUE]

\* provider.get_object(kind, "self", {}, None, *key): the _self.json of key, or None
EmptyIfAbsent(fs, key) == IF key \in DOMAIN fs THEN fs[key] ELSE EmptyBody

GetSelf(fs, key) == IF key \in DOMAIN fs THEN fs[key] ELSE None

\* provider._create_and_get_metadir(*key) then provider._save_meta(dir, {"_self": record}):
\* _save_meta leaves a file that already exists as it is
SaveMetaOverwrite(fs, key, record) ==
    [p \in DOMAIN fs \cup {key} |-> IF p = key THEN record ELSE fs[p]]

SaveMeta(fs, key, record) ==
    IF key \in DOMAIN fs THEN fs
    ELSE [p \in DOMAIN fs \cup {key} |-> IF p = key THEN record ELSE fs[p]]

\* provider.get_object("flow", "run", {}, None, flow): every F/*/_meta/_self.json
RunsOf(fs, f) == {fs[p] : p \in {q \in DOMAIN fs : Len(q) = 2 /\ q[1] = f}}

----------------------------------------------------------------------------
(* Record builders *)

GetUsername == "sys"

\* _ts_now(): int(round(time.time() * 1000)) of a clock reading in microseconds
TsNow(w) == (w + 500) \div 1000

UserName(body) == IF body.user_name = "" THEN GetUsername ELSE body.user_name
TsEpoch(body, w) == IF body.ts_epoch = 0 THEN TsNow(w) ELSE body.ts_epoch

_build_flow_record(f, body, w) ==
    [flow_id |-> f, user_name |-> UserName(body), tags |-> body.tags,
     system_tags |-> body.system_tags, ts_epoch |-> TsEpoch(body, w)]

_build_run_record(f, r, body, w) ==
    [flow_id |-> f, run_number |-> r, user_name |-> UserName(body), tags |-> body.tags,
     system_tags |-> body.system_tags, ts_epoch |-> TsEpoch(body, w)]

_build_step_record(f, r, s, body, w) ==
    [flow_id |-> f, run_number |-> r, step_name |-> s, user_name |-> UserName(body),
     tags |-> body.tags, system_tags |-> body.system_tags, ts_epoch |-> TsEpoch(body, w)]

_build_task_record(f, r, s, t, body, w) ==
    [flow_id |-> f, run_number |-> r, step_name |-> s, task_id |-> t,
     user_name |-> UserName(body), tags |-> body.tags,
     system_tags |-> body.system_tags, ts_epoch |-> TsEpoch(body, w)]

----------------------------------------------------------------------------
(* Identifier generators *)

\* _scan_max_task_id, line 84: max_id starts at 0
SetMaxFromOne(S) == IF S = {} THEN 1 ELSE CHOOSE m \in S : \A x \in S : x <= m

SetMax(S) == IF S = {} THEN 0 ELSE CHOOSE m \in S : \A x \in S : x <= m

\* _scan_max_task_id: glob root/flow/run/*/*/_meta/_self.json, max of int(task dir)
ScanFindsNothing(fs, f, r) == 0

_scan_max_task_id(fs, f, r) ==
    SetMax({DecInt(p[4]) : p \in {q \in DOMAIN fs :
                Len(q) = 4 /\ q[1] = f /\ q[2] = r}})

\* _next_task_id, lines 101-102: the counter of the key, seeded on first use
\* a counter that is read from the disk at every allocation
AlwaysScans(fs, f, r) == _scan_max_task_id(fs, f, r)

SeededCounter(fs, f, r) ==
    IF <<f, r>> \in DOMAIN task_counters THEN task_counters[<<f, r>>]
    ELSE _scan_max_task_id(fs, f, r)

\* _next_task_id, line 103
NoIncrement(c) == c

Increment(c) == c + 1

\* _next_task_id: the new value of the counter, which str() turns into the id
_next_task_id(fs, f, r) == Increment(SeededCounter(fs, f, r))

\* new_run_id, line 124
WallOnly(wall, last) == wall

LogicalClock(wall, last) == IF wall >= last + 1 THEN wall ELSE last + 1

new_run_id(wall) == LogicalClock(wall, last_run_id)

----------------------------------------------------------------------------
(* The discovery record and the processes behind it                        *)

\* A file of the state directory that does not exist; state.json with a content
\* json.load or DaemonState.from_dict raises on (open(..., "w") has truncated it
\* and nothing is written yet)
NoFile == [kind |-> "absent"]
Garbled == [kind |-> "garbled"]

\* DaemonState(pid, port, metaflow_root) as _write_state dumps it and _read_state
\* loads it; started_at is read by no call
DaemonState(pid, port, root) ==
    [kind |-> "state", pid |-> pid, port |-> port, metaflow_root |-> root]

PidFile(pid) == [kind |-> "pid", pid |-> pid]

_read_state(sf) == IF sf.kind = "state" THEN sf ELSE None

\* _clear_state: both files are removed, a missing one is passed over
KeepState(sf, pf) == [state_file |-> sf, pid_file |-> pf]

_clear_state(sf, pf) == [state_file |-> NoFile, pid_file |-> NoFile]

\* where a process that has ended is: "exited" when _run_server ran to its
\* end, "dead" when a signal ended it
Ended == {"dead", "exited"}

\* _is_alive: os.kill(pid, 0) finds the process
NeverAlive(ps, pid) == FALSE
AlwaysAlive(ps, pid) == TRUE

_is_alive(ps, pid) == pid \in DOMAIN ps /\ ps[pid].phase \notin Ended

\* status(): what it returns and the two files as it leaves them
status(sf, pf, ps) ==
    LET state == _read_state(sf)
    IN  IF state = None THEN [result |-> None, state_file |-> sf, pid_file |-> pf]
        ELSE IF ~_is_alive(ps, state.pid)
        THEN [result |-> None, state_file |-> _clear_state(sf, pf).state_file,
              pid_file |-> _clear_state(sf, pf).pid_file]
        ELSE [result |-> state, state_file |-> sf, pid_file |-> pf]

\* the ports processes listen on
BoundPorts(ps) ==
    {ps[p].port : p \in {q \in DOMAIN ps : ps[q].phase \in {"serving", "stopping"}}}

\* urlopen("http://127.0.0.1:<port>/ping", timeout=1) returns
PingAnswers(ps, port) ==
    \E p \in DOMAIN ps : ps[p].phase = "serving" /\ ps[p].port = port

\* start(), line 200: time.time() < deadline, after polls polls that failed
NoDeadline(polls) == TRUE

BeforeDeadline(polls) == polls < MaxPolls

\* SIGTERM: a serving daemon (uvicorn) starts or goes on with its shutdown,
\* a process that does not serve yet ends at once, one that has ended is left
Sigterm(ps, pid) ==
    [ps EXCEPT ![pid].phase = IF @ \in {"serving", "stopping"} THEN "stopping"
                              ELSE IF @ \in Ended THEN @ ELSE "dead"]

\* SIGKILL
Sigkill(ps, pid) == [ps EXCEPT ![pid].phase = IF @ \in Ended THEN @ ELSE "dead"]

----------------------------------------------------------------------------
(* The state after construction: an empty .metaflow, a fresh process *)

EmptyFn == [x \in {} |-> 0]

Init ==
    /\ files = EmptyFn
    /\ task_counters = EmptyFn
    /\ last_run_id = 0
    /\ ret = [op |-> "init"]
    /\ issued_tasks = {}
    /\ proc_tasks = {}
    /\ issued_runs = {}
    /\ proc_runs = {}
    /\ stored_artifacts = {}
    /\ passed_metadata = {}
    /\ state_file = NoFile
    /\ pid_file = NoFile
    /\ procs = EmptyFn
    /\ starter = [c \in Clients |-> [phase |-> "idle"]]
    /\ now = 0
    /\ last_heartbeat_at = 0
    /\ monitor = [phase |-> "none"]
    /\ should_exit = FALSE
    /\ counter_lock = NoThread
    /\ threads = [t \in ThreadIds |-> [pc |-> "idle"]]
    /\ allocs = <<>>
    /\ seeds = EmptyFn
    /\ tag_requests = [h \in HandlerIds |-> [pc |-> "idle"]]
    /\ tag_history = [initial |-> {}, served |-> <<>>]
    /\ writers = [p \in WriterIds |-> [pc |-> "idle"]]
    /\ temp_files = [n \in TempNames |-> NoFile]
    /\ built = {}
    /\ initialized = FALSE
    /\ datastore_root = None
    /\ metadirs = {}
    /\ setup_lock = NoThread
    /\ setup_threads = [t \in ThreadIds |-> [pc |-> "idle"]]
    /\ initializations = <<>>

----------------------------------------------------------------------------
(* Store operations as functions of the disk: the disk they leave and what *)
(* they return. A record read back is the record written: json.dump and    *)
(* json.load keep strings, integers and lists of strings as they are.      *)

get_or_create_flow_overwrites(fs, f, body, w) ==
    LET record == _build_flow_record(f, body, w)
    IN  [fs |-> SaveMetaOverwrite(fs, <<f>>, record), record |-> record,
         created |-> GetSelf(fs, <<f>>) = None]

get_or_create_flow(fs, f, body, w) ==
    LET existing == GetSelf(fs, <<f>>)
        record == _build_flow_record(f, body, w)
    IN  IF existing # None
        THEN [fs |-> fs, record |-> existing, created |-> FALSE]
        ELSE [fs |-> SaveMeta(fs, <<f>>, record), record |-> record, created |-> TRUE]

get_or_create_step_overwrites(fs, f, r, s, body, w) ==
    LET record == _build_step_record(f, r, s, body, w)
    IN  [fs |-> SaveMetaOverwrite(fs, <<f, r, s>>, record), record |-> record,
         created |-> GetSelf(fs, <<f, r, s>>) = None]

get_or_create_step(fs, f, r, s, body, w) ==
    LET existing == GetSelf(fs, <<f, r, s>>)
        record == _build_step_record(f, r, s, body, w)
    IN  IF existing # None
        THEN [fs |-> fs, record |-> existing, created |-> FALSE]
        ELSE [fs |-> SaveMeta(fs, <<f, r, s>>, record), record |-> record, created |-> TRUE]

\* create_run with the id new_run_id gave it
create_run(fs, f, id, body, w) ==
    LET withFlow == get_or_create_flow(fs, f, body, w).fs
        record == _build_run_record(f, DecStr(id), body, w)
    IN  [fs |-> SaveMeta(withFlow, <<f, DecStr(id)>>, record), record |-> record]

\* create_task up to the id: get_or_create_step, then _next_task_id
create_task_id_scans_own_step(fs, f, r, s, body, w) ==
    IF <<f, r>> \in DOMAIN task_counters THEN task_counters[<<f, r>>] + 1
    ELSE 1 + SetMax({DecInt(p[4]) : p \in {q \in DOMAIN fs :
                        Len(q) = 4 /\ q[1] = f /\ q[2] = r /\ q[3] = s}})

create_task_id(fs, f, r, s, body, w) ==
    _next_task_id(get_or_create_step(fs, f, r, s, body, w).fs, f, r)

create_task(fs, f, r, s, body, w) ==
    LET withStep == get_or_create_step(fs, f, r, s, body, w).fs
        id == create_task_id(fs, f, r, s, body, w)
        record == _build_task_record(f, r, s, DecStr(id), body, w)
    IN  [fs |-> SaveMeta(withStep, <<f, r, s, DecStr(id)>>, record), record |-> record]

list_runs(fs, f) == RunsOf(fs, f)

\* get_flow, get_run, get_step, get_task: provider.get_object(kind, "self", ...)
get_flow(fs, f) == GetSelf(fs, <<f>>)
get_run(fs, f, r) == GetSelf(fs, <<f, r>>)
get_step(fs, f, r, s) == GetSelf(fs, <<f, r, s>>)
get_task(fs, f, r, s, t) == GetSelf(fs, <<f, r, s, t>>)

\* list_steps, list_tasks: every _self.json one level below the run, the step
list_steps(fs, f, r) ==
    {fs[p] : p \in {q \in DOMAIN fs : Len(q) = 3 /\ SubSeq(q, 1, 2) = <<f, r>>}}
list_tasks(fs, f, r, s) ==
    {fs[p] : p \in {q \in DOMAIN fs : Len(q) = 4 /\ SubSeq(q, 1, 3) = <<f, r, s>>}}

----------------------------------------------------------------------------
(* The routes of server.py: the status code of the response *)

\* create_flow, create_step: 409 if not created, else 201
AlwaysCreated(created) == 201

StatusOfCreate(created) == IF ~created THEN 409 ELSE 201

\* get_flow, get_run, get_step, get_task: 404 if obj is None, else JSONResponse(obj)
AlwaysOk(obj) == 200

StatusOfGet(obj) == IF obj = None THEN 404 ELSE 200

----------------------------------------------------------------------------
(* Artifacts and metadata: files next to _self.json in the _meta directory *)
(* of a task, named by formatting and found again by their names           *)

\* "%d" % n and "%s" % n of an integer n >= 0, as text
Digits == "0123456789"

RECURSIVE FormatInt(_)
FormatInt(n) ==
    IF n < 10 THEN SubSeq(Digits, n + 1, n + 1)
    ELSE FormatInt(n \div 10) \o SubSeq(Digits, (n % 10) + 1, (n % 10) + 1)

JsonExt == ".json"

\* the files in the _meta directory of the task with key path task
MetaDirFiles(fs, task) ==
    {p \in DOMAIN fs : Len(p) = Len(task) + 1 /\ SubSeq(p, 1, Len(task)) = task}

\* provider._save_meta(meta_dir, metadict): metadict is name |-> datum; the file
\* name.json of every item is written unless it already exists
SaveMetaDictOverwrite(fs, task, metadict) ==
    LET new == {Append(task, n \o JsonExt) : n \in DOMAIN metadict}
    IN  [p \in DOMAIN fs \cup new |->
            IF p \in new
            THEN metadict[CHOOSE n \in DOMAIN metadict : p = Append(task, n \o JsonExt)]
            ELSE fs[p]]

SaveMetaDict(fs, task, metadict) ==
    LET new == {Append(task, n \o JsonExt) : n \in DOMAIN metadict}
    IN  [p \in DOMAIN fs \cup new |->
            IF p \in DOMAIN fs THEN fs[p]
            ELSE metadict[CHOOSE n \in DOMAIN metadict : p = Append(task, n \o JsonExt)]]

\* {keys[i]: list[i] for i}: the dict of the items of list under their keys; of
\* two items with one key the later one stays
DictOf(list, keys) ==
    [n \in {keys[i] : i \in DOMAIN list} |->
        list[CHOOSE i \in DOMAIN list :
                /\ keys[i] = n
                /\ \A j \in DOMAIN list : keys[j] = n => j <= i]]

\* register_artifacts, line 299: "%s_artifact_%s" % (a.get("attempt_id", 0), a["name"])
ArtifactKey(a) == FormatInt(AttemptId(a)) \o "_artifact_" \o a.name

register_artifacts(fs, task, artifacts) ==
    SaveMetaDict(fs, task,
        DictOf(artifacts, [i \in DOMAIN artifacts |-> ArtifactKey(artifacts[i])]))

\* glob of "<literal>*.json": a name that starts with the literal and ends in .json
GlobLiteralStar(name, literal) ==
    /\ Len(name) >= Len(literal) + Len(JsonExt)
    /\ SubSeq(name, 1, Len(literal)) = literal
    /\ SubSeq(name, Len(name) - Len(JsonExt) + 1, Len(name)) = JsonExt

\* glob of "*<literal>*.json": a name that does not start with a dot, holds the
\* literal and ends in .json after it
GlobStarLiteralStar(name, literal) ==
    /\ Len(name) >= Len(literal) + Len(JsonExt)
    /\ SubSeq(name, 1, 1) # "."
    /\ SubSeq(name, Len(name) - Len(JsonExt) + 1, Len(name)) = JsonExt
    /\ \E i \in 1..(Len(name) - Len(JsonExt) - Len(literal) + 1) :
          SubSeq(name, i, i + Len(literal) - 1) = literal

\* get_artifacts, lines 320-321: the pattern of the attempt, or of any attempt
AnyAttemptPattern(name, attempt) == GlobStarLiteralStar(name, "_artifact_")

ArtifactPattern(name, attempt) ==
    IF attempt # NoFilter
    THEN GlobLiteralStar(name, FormatInt(attempt[1]) \o "_artifact_")
    ELSE GlobStarLiteralStar(name, "_artifact_")

\* get_artifacts: what the files found hold (an absent _meta directory and an
\* empty one both give the empty list)
get_artifacts(fs, task, attempt) ==
    {fs[p] : p \in {q \in MetaDirFiles(fs, task) :
                        ArtifactPattern(q[Len(q)], attempt)}}

\* A file whose content json.load raises on (cut short, or not JSON)
Unparsable == [unparsable |-> TRUE]

\* get_artifacts, line 324: provider._read_json_file(path) is json.load of the
\* open file, so the loop raises at a file found that cannot be parsed
get_artifacts_raises(fs, task, attempt) ==
    \E p \in MetaDirFiles(fs, task) :
        ArtifactPattern(p[Len(p)], attempt) /\ fs[p] = Unparsable

\* register_metadata, line 342: "sysmeta_%s_%d" % (m.get("field_name", "unknown"), ts + i),
\* i counting the entries from 0
FieldName(m) == IF "field_name" \in DOMAIN m THEN m.field_name ELSE "unknown"

register_metadata(fs, task, metadata, w) ==
    LET MetadataKey(m, i) ==
            "sysmeta_" \o FieldName(m) \o "_" \o FormatInt(TsNow(w) + (i - 1))
    IN  SaveMetaDict(fs, task,
            DictOf(metadata, [i \in DOMAIN metadata |-> MetadataKey(metadata[i], i)]))

\* provider.get_object("task", "metadata", ...): what the files of the _meta
\* directory whose names start with sysmeta_ hold
get_metadata(fs, task) ==
    {fs[p] : p \in {q \in MetaDirFiles(fs, task) :
                        /\ Len(q[Len(q)]) >= Len("sysmeta_")
                        /\ SubSeq(q[Len(q)], 1, Len("sysmeta_")) = "sysmeta_"}}

----------------------------------------------------------------------------
(* Tag mutation: mutate_tags hands its arguments to                        *)
(* LocalMetadataProvider._mutate_user_tags_for_run                         *)

\* list(frozenset): the members once each, in an order the caller cannot choose
ListsOf(S) == {q \in [1..Cardinality(S) -> S] : Items(q) = S}

\* _mutate_user_tags_for_run on the run record it reads: whether it raises, the
\* tag set it computes (removal first, then addition of the tags that are not
\* system tags of the run) and whether it writes the run record
\* a mutation that starts from no tags instead of the tags the run has
mutate_tags_forgets(fs, f, r, tags_to_add, tags_to_remove) ==
    LET run == GetSelf(fs, <<f, r>>)
        system == Items(run.system_tags)
        next == Items(tags_to_add) \ system
    IN  IF run = None THEN [raised |-> TRUE, tags |-> {}, writes |-> FALSE]
        ELSE IF Items(tags_to_remove) \cap system # {}
        THEN [raised |-> TRUE, tags |-> {}, writes |-> FALSE]
        ELSE [raised |-> FALSE, tags |-> next, writes |-> next # Items(run.tags)]

mutate_tags(fs, f, r, tags_to_add, tags_to_remove) ==
    LET run == GetSelf(fs, <<f, r>>)
        existing == Items(run.tags)
        system == Items(run.system_tags)
        toAdd == Items(tags_to_add) \ system
        next == (existing \ Items(tags_to_remove)) \cup toAdd
    IN  IF run = None THEN [raised |-> TRUE, tags |-> {}, writes |-> FALSE]
        ELSE IF Items(tags_to_remove) \cap system # {}
        THEN [raised |-> TRUE, tags |-> {}, writes |-> FALSE]
        ELSE [raised |-> FALSE, tags |-> next, writes |-> next # existing]

----------------------------------------------------------------------------
(* What a client may name *)

\* the run ids a client names for flow f: the runs create_run gave it, or one of its own
RunArgs(f) == {p[2] : p \in {q \in DOMAIN files : Len(q) = 2 /\ q[1] = f}} \cup {ForeignRun}

\* the runs create_run gave the client of flow f
StartedRuns(f) == RunArgs(f) \ {ForeignRun}

SetCounter(f, r, c) ==
    [k \in DOMAIN task_counters \cup {<<f, r>>} |->
        IF k = <<f, r>> THEN c ELSE task_counters[k]]

----------------------------------------------------------------------------
(* Actions: one per store call *)

GetOrCreateFlow(f, body, w) ==
    LET res == get_or_create_flow(files, f, body, w)
    IN  /\ files' = res.fs
        /\ ret' = [op |-> "get_or_create_flow", flow |-> f, body |-> body,
                   record |-> res.record, created |-> res.created]
        /\ UNCHANGED <<task_counters, last_run_id, issued_tasks, proc_tasks,
                       issued_runs, proc_runs>>
        /\ UNCHANGED <<registryVars, daemonVars, serviceVars>>

CreateRun(f, body, w) ==
    LET id == new_run_id(w)
        res == create_run(files, f, id, body, w)
    IN  /\ id <= MaxRunId
        /\ files' = res.fs
        /\ last_run_id' = id
        /\ issued_runs' = issued_runs \cup {id}
        /\ proc_runs' = proc_runs \cup {id}
        /\ ret' = [op |-> "create_run", flow |-> f, body |-> body, wall |-> w,
                   record |-> res.record]
        /\ UNCHANGED <<task_counters, issued_tasks, proc_tasks>>
        /\ UNCHANGED <<registryVars, daemonVars, serviceVars>>

ListRuns(f) ==
    /\ ret' = [op |-> "list_runs", flow |-> f, records |-> list_runs(files, f)]
    /\ UNCHANGED <<files, task_counters, last_run_id, issued_tasks, proc_tasks,
                   issued_runs, proc_runs>>
    /\ UNCHANGED <<registryVars, daemonVars, serviceVars>>

GetOrCreateStep(f, r, s, body, w) ==
    LET res == get_or_create_step(files, f, r, s, body, w)
    IN  /\ files' = res.fs
        /\ ret' = [op |-> "get_or_create_step", flow |-> f, run |-> r, step |-> s,
                   body |-> body, record |-> res.record, created |-> res.created]
        /\ UNCHANGED <<task_counters, last_run_id, issued_tasks, proc_tasks,
                       issued_runs, proc_runs>>
        /\ UNCHANGED <<registryVars, daemonVars, serviceVars>>

CreateTask(f, r, s, body, w) ==
    LET id == create_task_id(files, f, r, s, body, w)
        res == create_task(files, f, r, s, body, w)
    IN  /\ Cardinality(issued_tasks) < MaxTasks
        /\ files' = res.fs
        /\ task_counters' = SetCounter(f, r, id)
        /\ issued_tasks' = issued_tasks \cup {<<f, r, id>>}
        /\ proc_tasks' = proc_tasks \cup {<<f, r, id>>}
        /\ ret' = [op |-> "create_task", flow |-> f, run |-> r, step |-> s,
                   record |-> res.record,
                   seeded |-> <<f, r>> \notin DOMAIN task_counters]
        /\ UNCHANGED <<last_run_id, issued_runs, proc_runs>>
        /\ UNCHANGED <<registryVars, daemonVars, serviceVars>>

\* The process dies inside create_task, after _next_task_id returned (line 273)
\* and before _save_meta wrote the task record (line 276): the step record is
\* on disk, the task record is not, and the memory of the process is gone.
\* A new process is then started on the same .metaflow.
CrashInCreateTask(f, r, s, body, w) ==
    LET id == create_task_id(files, f, r, s, body, w)
    IN  /\ Cardinality(issued_tasks) < MaxTasks
        /\ files' = get_or_create_step(files, f, r, s, body, w).fs
        /\ task_counters' = EmptyFn
        /\ last_run_id' = 0
        /\ issued_tasks' = issued_tasks \cup {<<f, r, id>>}
        /\ proc_tasks' = {}
        /\ proc_runs' = {}
        /\ ret' = [op |-> "crash_in_create_task", flow |-> f, run |-> r, step |-> s,
                   task_id |-> DecStr(id)]
        /\ UNCHANGED issued_runs
        /\ UNCHANGED <<registryVars, daemonVars, serviceVars>>

\* The service process ends (stop, idle shutdown) and a new one is started on
\* the same .metaflow: the module globals are back at their initial values.
Restart ==
    /\ task_counters' = EmptyFn
    /\ last_run_id' = 0
    /\ proc_tasks' = {}
    /\ proc_runs' = {}
    /\ ret' = [op |-> "restart"]
    /\ UNCHANGED <<files, issued_tasks, issued_runs>>
    /\ UNCHANGED <<registryVars, daemonVars, serviceVars>>

RegisterArtifacts(f, r, s, t, artifacts) ==
    LET task == <<f, r, s, t>>
        held(a) == \E e \in stored_artifacts :
                      /\ e[1] = task
                      /\ AttemptId(e[2]) = AttemptId(a)
                      /\ e[2].name = a.name
    IN  /\ files' = register_artifacts(files, task, artifacts)
        /\ stored_artifacts' = stored_artifacts \cup
               {<<task, a>> : a \in {x \in Items(artifacts) : ~held(x)}}
        /\ ret' = [op |-> "register_artifacts", task |-> task, artifacts |-> artifacts]
        /\ UNCHANGED <<task_counters, last_run_id, issued_tasks, proc_tasks,
                       issued_runs, proc_runs, passed_metadata, daemonVars, serviceVars>>

GetArtifacts(f, r, s, t, attempt) ==
    /\ ret' = [op |-> "get_artifacts", task |-> <<f, r, s, t>>, attempt |-> attempt,
               raised |-> get_artifacts_raises(files, <<f, r, s, t>>, attempt),
               result |-> IF get_artifacts_raises(files, <<f, r, s, t>>, attempt) THEN {}
                          ELSE get_artifacts(files, <<f, r, s, t>>, attempt)]
    /\ UNCHANGED <<files, task_counters, last_run_id, issued_tasks, proc_tasks,
                   issued_runs, proc_runs, registryVars, daemonVars, serviceVars>>

\* the task ids a program other than the service writes under a run
OutsideTaskIds == {7}

\* a program other than the service (a flow run with the local metadata
\* provider, by hand) writes a task record under the run: the .metaflow tree
\* is an ordinary directory and the service does not own it
WriteTaskFromOutside(f, r, s, id, w) ==
    /\ <<f, r, s, DecStr(id)>> \notin DOMAIN files
    /\ files' = SaveMeta(files, <<f, r, s, DecStr(id)>>,
                    _build_task_record(f, r, s, DecStr(id), EmptyBody, w))
    /\ ret' = [op |-> "write_from_outside", flow |-> f, run |-> r, step |-> s]
    /\ UNCHANGED <<task_counters, last_run_id, issued_tasks, proc_tasks, issued_runs,
                   proc_runs, registryVars, daemonVars, serviceVars>>

\* a file of a _meta directory is damaged from outside the service (the disk,
\* another program): what it held is gone and it cannot be parsed
DamageFile(p) ==
    /\ p \in DOMAIN files
    /\ Len(p) = 5
    /\ files[p] # Unparsable
    /\ files' = [files EXCEPT ![p] = Unparsable]
    /\ UNCHANGED <<task_counters, last_run_id, ret, issued_tasks, proc_tasks,
                   issued_runs, proc_runs, registryVars, daemonVars, serviceVars>>

RegisterMetadata(f, r, s, t, metadata, w) ==
    LET task == <<f, r, s, t>>
    IN  /\ files' = register_metadata(files, task, metadata, w)
        /\ passed_metadata' = passed_metadata \cup {<<task, m>> : m \in Items(metadata)}
        /\ ret' = [op |-> "register_metadata", task |-> task, metadata |-> metadata,
                   wall |-> w]
        /\ UNCHANGED <<task_counters, last_run_id, issued_tasks, proc_tasks,
                       issued_runs, proc_runs, stored_artifacts, daemonVars, serviceVars>>

GetMetadata(f, r, s, t) ==
    /\ ret' = [op |-> "get_metadata", task |-> <<f, r, s, t>>,
               result |-> get_metadata(files, <<f, r, s, t>>)]
    /\ UNCHANGED <<files, task_counters, last_run_id, issued_tasks, proc_tasks,
                   issued_runs, proc_runs, registryVars, daemonVars, serviceVars>>

ListSteps(f, r) ==
    /\ ret' = [op |-> "list_steps", key |-> <<f, r>>, records |-> list_steps(files, f, r)]
    /\ UNCHANGED <<files, task_counters, last_run_id, issued_tasks, proc_tasks,
                   issued_runs, proc_runs>>
    /\ UNCHANGED <<registryVars, daemonVars, serviceVars>>

ListTasks(f, r, s) ==
    /\ ret' = [op |-> "list_tasks", key |-> <<f, r, s>>,
               records |-> list_tasks(files, f, r, s)]
    /\ UNCHANGED <<files, task_counters, last_run_id, issued_tasks, proc_tasks,
                   issued_runs, proc_runs>>
    /\ UNCHANGED <<registryVars, daemonVars, serviceVars>>

\* The routes of server.py for the four kinds of record. Each is the whole
\* handler: the store call, what it returned (obj, created) and the status
\* code of the response.
HttpGetFlow(f) ==
    LET obj == get_flow(files, f)
    IN  /\ ret' = [op |-> "http_get_flow", key |-> <<f>>, obj |-> obj,
                   status |-> StatusOfGet(obj)]
        /\ UNCHANGED <<files, task_counters, last_run_id, issued_tasks, proc_tasks,
                       issued_runs, proc_runs>>
        /\ UNCHANGED <<registryVars, daemonVars, serviceVars>>

HttpGetRun(f, r) ==
    LET obj == get_run(files, f, r)
    IN  /\ ret' = [op |-> "http_get_run", key |-> <<f, r>>, obj |-> obj,
                   status |-> StatusOfGet(obj)]
        /\ UNCHANGED <<files, task_counters, last_run_id, issued_tasks, proc_tasks,
                       issued_runs, proc_runs>>
        /\ UNCHANGED <<registryVars, daemonVars, serviceVars>>

HttpGetStep(f, r, s) ==
    LET obj == get_step(files, f, r, s)
    IN  /\ ret' = [op |-> "http_get_step", key |-> <<f, r, s>>, obj |-> obj,
                   status |-> StatusOfGet(obj)]
        /\ UNCHANGED <<files, task_counters, last_run_id, issued_tasks, proc_tasks,
                       issued_runs, proc_runs>>
        /\ UNCHANGED <<registryVars, daemonVars, serviceVars>>

HttpGetTask(f, r, s, t) ==
    LET obj == get_task(files, f, r, s, t)
    IN  /\ ret' = [op |-> "http_get_task", key |-> <<f, r, s, t>>, obj |-> obj,
                   status |-> StatusOfGet(obj)]
        /\ UNCHANGED <<files, task_counters, last_run_id, issued_tasks, proc_tasks,
                       issued_runs, proc_runs>>
        /\ UNCHANGED <<registryVars, daemonVars, serviceVars>>

HttpCreateFlow(f, body, w) ==
    LET res == get_or_create_flow(files, f, body, w)
    IN  /\ files' = res.fs
        /\ ret' = [op |-> "http_create_flow", key |-> <<f>>, obj |-> res.record,
                   created |-> res.created, status |-> StatusOfCreate(res.created)]
        /\ UNCHANGED <<task_counters, last_run_id, issued_tasks, proc_tasks,
                       issued_runs, proc_runs>>
        /\ UNCHANGED <<registryVars, daemonVars, serviceVars>>

HttpCreateStep(f, r, s, body, w) ==
    LET res == get_or_create_step(files, f, r, s, body, w)
    IN  /\ files' = res.fs
        /\ ret' = [op |-> "http_create_step", key |-> <<f, r, s>>, obj |-> res.record,
                   created |-> res.created, status |-> StatusOfCreate(res.created)]
        /\ UNCHANGED <<task_counters, last_run_id, issued_tasks, proc_tasks,
                       issued_runs, proc_runs>>
        /\ UNCHANGED <<registryVars, daemonVars, serviceVars>>

\* create_run of server.py: JSONResponse(obj, status_code=201)
HttpCreateRun(f, body, w) ==
    LET id == new_run_id(w)
        res == create_run(files, f, id, body, w)
    IN  /\ id <= MaxRunId
        /\ files' = res.fs
        /\ last_run_id' = id
        /\ issued_runs' = issued_runs \cup {id}
        /\ proc_runs' = proc_runs \cup {id}
        /\ ret' = [op |-> "http_create_run", key |-> <<f>>, obj |-> res.record,
                   status |-> 201]
        /\ UNCHANGED <<task_counters, issued_tasks, proc_tasks>>
        /\ UNCHANGED <<registryVars, daemonVars, serviceVars>>

\* create_task of server.py: JSONResponse(obj, status_code=201)
HttpCreateTask(f, r, s, body, w) ==
    LET id == create_task_id(files, f, r, s, body, w)
        res == create_task(files, f, r, s, body, w)
    IN  /\ Cardinality(issued_tasks) < MaxTasks
        /\ files' = res.fs
        /\ task_counters' = SetCounter(f, r, id)
        /\ issued_tasks' = issued_tasks \cup {<<f, r, id>>}
        /\ proc_tasks' = proc_tasks \cup {<<f, r, id>>}
        /\ ret' = [op |-> "http_create_task", key |-> <<f, r, s>>, obj |-> res.record,
                   status |-> 201]
        /\ UNCHANGED <<last_run_id, issued_runs, proc_runs>>
        /\ UNCHANGED <<registryVars, daemonVars, serviceVars>>

\* mutate_tags; when it writes, _persist_tags_for_run overwrites the tags and
\* the system tags of the run record with lists of the two sets
MutateTags(f, r, tags_to_add, tags_to_remove) ==
    LET res == mutate_tags(files, f, r, tags_to_add, tags_to_remove)
    IN  /\ IF res.writes
           THEN \E tags \in ListsOf(res.tags),
                   system_tags \in ListsOf(Items(files[<<f, r>>].system_tags)) :
                    files' = [files EXCEPT ![<<f, r>>].tags = tags,
                                           ![<<f, r>>].system_tags = system_tags]
           ELSE files' = files
        /\ ret' = [op |-> "mutate_tags", flow |-> f, run |-> r,
                   tags_to_add |-> tags_to_add, tags_to_remove |-> tags_to_remove,
                   raised |-> res.raised, tags |-> res.tags]
        /\ UNCHANGED <<task_counters, last_run_id, issued_tasks, proc_tasks,
                       issued_runs, proc_runs, registryVars, daemonVars, serviceVars>>

----------------------------------------------------------------------------
(* Actions of the supervisor: the calls of a client, the steps of a daemon *)
(* process (_run_server) and what may end a process from outside           *)

Status ==
    LET res == status(state_file, pid_file, procs)
    IN  /\ state_file' = res.state_file
        /\ pid_file' = res.pid_file
        /\ ret' = [op |-> "status", found |-> state_file.kind, result |-> res.result]
        /\ UNCHANGED <<procs, starter, storeVars, serviceVars>>

\* start() up to the loop: status(), and either the return of the record it
\* found or the spawn of a daemon, whose pid, port and root the client keeps
StartBegin(c, port, metaflow_root, idle_timeout) ==
    LET res == status(state_file, pid_file, procs)
        pid == Cardinality(DOMAIN procs) + 1
        root == IF metaflow_root = NoRoot THEN Cwd ELSE metaflow_root
        actual == IF port = 0 THEN EphemeralPort(pid) ELSE port
    IN  /\ starter[c].phase = "idle"
        /\ state_file' = res.state_file
        /\ pid_file' = res.pid_file
        /\ IF res.result # None
           THEN /\ ret' = [op |-> "start", outcome |-> "existing", port |-> port,
                           metaflow_root |-> metaflow_root,
                           idle_timeout |-> idle_timeout, result |-> res.result]
                /\ UNCHANGED <<procs, starter>>
           ELSE /\ Cardinality(DOMAIN procs) < MaxDaemons
                /\ procs' = [q \in DOMAIN procs \cup {pid} |->
                                IF q = pid
                                THEN [phase |-> "starting", port |-> actual, root |-> root]
                                ELSE procs[q]]
                /\ starter' = [starter EXCEPT ![c] =
                                [phase |-> "polling", pid |-> pid, port |-> actual,
                                 root |-> root, polls |-> 0]]
                /\ UNCHANGED ret
        /\ UNCHANGED <<storeVars, serviceVars>>

\* start(), lines 200-216: one turn of the loop, or its else branch
StartPoll(c) ==
    /\ starter[c].phase = "polling"
    /\ IF BeforeDeadline(starter[c].polls)
       THEN IF PingAnswers(procs, starter[c].port)
            THEN /\ ret' = [op |-> "start", outcome |-> "reachable",
                            polls |-> starter[c].polls,
                            result |-> DaemonState(starter[c].pid, starter[c].port,
                                                   starter[c].root)]
                 /\ starter' = [starter EXCEPT ![c] = [phase |-> "idle"]]
                 /\ UNCHANGED procs
            ELSE /\ starter' = [starter EXCEPT ![c].polls = @ + 1]
                 /\ UNCHANGED <<ret, procs>>
       ELSE /\ procs' = Sigkill(procs, starter[c].pid)
            /\ ret' = [op |-> "start", outcome |-> "raised", polls |-> starter[c].polls,
                       killed |-> starter[c].pid]
            /\ starter' = [starter EXCEPT ![c] = [phase |-> "idle"]]
    /\ UNCHANGED <<state_file, pid_file, storeVars, serviceVars>>

Stop ==
    LET res == status(state_file, pid_file, procs)
    IN  /\ IF res.result = None
           THEN /\ state_file' = res.state_file
                /\ pid_file' = res.pid_file
                /\ ret' = [op |-> "stop", found |-> state_file.kind, stopped |-> FALSE,
                           signalled |-> {}]
                /\ UNCHANGED procs
           ELSE /\ procs' = Sigterm(procs, res.result.pid)
                /\ state_file' = _clear_state(res.state_file, res.pid_file).state_file
                /\ pid_file' = _clear_state(res.state_file, res.pid_file).pid_file
                /\ ret' = [op |-> "stop", found |-> state_file.kind, stopped |-> TRUE,
                           signalled |-> {res.result.pid}]
        /\ UNCHANGED <<starter, storeVars, serviceVars>>

\* the daemon ends before it wrote anything (create_app raises, a dependency is missing)
DaemonFailsToStart(p) ==
    /\ procs[p].phase = "starting"
    /\ procs' = Sigkill(procs, p)
    /\ UNCHANGED <<state_file, pid_file, starter, ret, storeVars, serviceVars>>

\* _write_state, line 97: open(_STATE_FILE, "w") leaves an empty state.json
DaemonOpenState(p) ==
    /\ procs[p].phase = "starting"
    /\ procs' = [procs EXCEPT ![p].phase = "opened"]
    /\ state_file' = Garbled
    /\ UNCHANGED <<pid_file, starter, ret, storeVars, serviceVars>>

\* _write_state, line 98: the state is dumped and the file closed
DaemonWriteState(p) ==
    /\ procs[p].phase = "opened"
    /\ procs' = [procs EXCEPT ![p].phase = "wrote_state"]
    /\ state_file' = DaemonState(p, procs[p].port, procs[p].root)
    /\ UNCHANGED <<pid_file, starter, ret, storeVars, serviceVars>>

\* _write_state, lines 99-100
DaemonWritePid(p) ==
    /\ procs[p].phase = "wrote_state"
    /\ procs' = [procs EXCEPT ![p].phase = "recorded"]
    /\ pid_file' = PidFile(p)
    /\ UNCHANGED <<state_file, starter, ret, storeVars, serviceVars>>

\* uv_server.run() binds the port and answers /ping
DaemonServe(p) ==
    /\ procs[p].phase = "recorded"
    /\ procs[p].port \notin BoundPorts(procs)
    /\ procs' = [procs EXCEPT ![p].phase = "serving"]
    /\ UNCHANGED <<state_file, pid_file, starter, ret, storeVars, serviceVars>>

\* uv_server.run() ends (the port is taken, the idle monitor or SIGTERM asked
\* for the exit) and the finally clause clears the record
DaemonExit(p) ==
    /\ \/ procs[p].phase \in {"serving", "stopping"}
       \/ procs[p].phase = "recorded" /\ procs[p].port \in BoundPorts(procs)
    /\ procs' = [procs EXCEPT ![p].phase = "exited"]
    /\ state_file' = _clear_state(state_file, pid_file).state_file
    /\ pid_file' = _clear_state(state_file, pid_file).pid_file
    /\ UNCHANGED <<starter, ret, storeVars, serviceVars>>

\* the process is killed from outside (SIGKILL, out of memory): no finally clause runs
KillDaemon(p) ==
    /\ _is_alive(procs, p)
    /\ procs' = Sigkill(procs, p)
    /\ UNCHANGED <<state_file, pid_file, starter, ret, storeVars, serviceVars>>

----------------------------------------------------------------------------
(* create_task called from several threads of one service process, step by *)
(* step: get_or_create_step, then _next_task_id under _counter_lock (the   *)
(* seeding, the increment, the return), then the write of the task record  *)

\* with _counter_lock: the lock is taken when no thread holds it
NoLock(lock) == TRUE

LockFree(lock) == lock = NoThread

\* create_task, line 272: get_or_create_step
AllocBegin(t, r, w) ==
    /\ threads[t].pc = "idle"
    /\ Cardinality(issued_tasks)
          + Cardinality({u \in ThreadIds : threads[u].pc \notin {"idle", "saving"}})
          < MaxTasks
    /\ files' = get_or_create_step(files, TaskFlow, r, RegistryStep, EmptyBody, w).fs
    /\ threads' = [threads EXCEPT ![t] = [pc |-> "waiting", run |-> r]]
    /\ UNCHANGED <<task_counters, last_run_id, ret, issued_tasks, proc_tasks, issued_runs,
                   proc_runs, registryVars, daemonVars, idleVars, extraVars, requestVars,
                   counter_lock, allocs, seeds>>

\* _next_task_id, line 100: with _counter_lock
AllocAcquire(t) ==
    /\ threads[t].pc = "waiting"
    /\ LockFree(counter_lock)
    /\ counter_lock' = t
    /\ threads' = [threads EXCEPT ![t].pc = "locked"]
    /\ UNCHANGED <<storeVars, ret, daemonVars, idleVars, extraVars, requestVars, allocs, seeds>>

\* _next_task_id, lines 101-102: the counter of a key that has none is set to
\* what the scan of the disk finds
AllocSeed(t) ==
    LET r == threads[t].run
        scan == _scan_max_task_id(files, TaskFlow, r)
    IN  /\ threads[t].pc = "locked"
        /\ IF <<TaskFlow, r>> \notin DOMAIN task_counters
           THEN /\ task_counters' = SetCounter(TaskFlow, r, scan)
                /\ seeds' = [k \in DOMAIN seeds \cup {<<TaskFlow, r>>} |->
                                IF k = <<TaskFlow, r>> THEN scan ELSE seeds[k]]
           ELSE UNCHANGED <<task_counters, seeds>>
        /\ threads' = [threads EXCEPT ![t].pc = "seeded"]
        /\ UNCHANGED <<files, last_run_id, ret, issued_tasks, proc_tasks, issued_runs,
                       proc_runs, registryVars, daemonVars, idleVars, extraVars, requestVars,
                       counter_lock, allocs>>

\* _next_task_id, line 103: _task_counters[key] += 1
AllocIncrement(t) ==
    /\ threads[t].pc = "seeded"
    /\ task_counters' = [task_counters EXCEPT ![<<TaskFlow, threads[t].run>>] =
                            Increment(@)]
    /\ threads' = [threads EXCEPT ![t].pc = "incremented"]
    /\ UNCHANGED <<files, last_run_id, ret, issued_tasks, proc_tasks, issued_runs,
                   proc_runs, registryVars, daemonVars, idleVars, extraVars, requestVars,
                   counter_lock, allocs, seeds>>

\* _next_task_id, line 104: return str(_task_counters[key]), and the lock is released
AllocReturn(t) ==
    LET r == threads[t].run
        id == task_counters[<<TaskFlow, r>>]
    IN  /\ threads[t].pc = "incremented"
        /\ counter_lock' = NoThread
        /\ allocs' = Append(allocs, <<TaskFlow, r, id>>)
        /\ issued_tasks' = issued_tasks \cup {<<TaskFlow, r, id>>}
        /\ proc_tasks' = proc_tasks \cup {<<TaskFlow, r, id>>}
        /\ threads' = [threads EXCEPT ![t] = [pc |-> "saving", run |-> r, id |-> id]]
        /\ ret' = [op |-> "_next_task_id", flow |-> TaskFlow, run |-> r,
                   task_id |-> DecStr(id)]
        /\ UNCHANGED <<files, task_counters, last_run_id, issued_runs, proc_runs,
                       registryVars, daemonVars, idleVars, extraVars, requestVars, seeds>>

\* create_task, lines 274-277: the task record is written
AllocSave(t, w) ==
    LET r == threads[t].run
        id == DecStr(threads[t].id)
    IN  /\ threads[t].pc = "saving"
        /\ files' = SaveMeta(files, <<TaskFlow, r, RegistryStep, id>>,
                        _build_task_record(TaskFlow, r, RegistryStep, id, EmptyBody, w))
        /\ threads' = [threads EXCEPT ![t] = [pc |-> "idle"]]
        /\ UNCHANGED <<task_counters, last_run_id, ret, issued_tasks, proc_tasks,
                       issued_runs, proc_runs, registryVars, daemonVars, idleVars, extraVars,
                       requestVars, counter_lock, allocs, seeds>>

\* The service process ends with its threads wherever they are, and a new one
\* is started on the same .metaflow
RestartThreads ==
    /\ task_counters' = EmptyFn
    /\ last_run_id' = 0
    /\ proc_tasks' = {}
    /\ proc_runs' = {}
    /\ counter_lock' = NoThread
    /\ threads' = [t \in ThreadIds |-> [pc |-> "idle"]]
    /\ allocs' = <<>>
    /\ seeds' = EmptyFn
    /\ ret' = [op |-> "restart"]
    /\ UNCHANGED <<files, issued_tasks, issued_runs, registryVars, daemonVars,
                   idleVars, extraVars, requestVars>>

----------------------------------------------------------------------------
(* The mutate_tags route with several requests in flight. A handler is a   *)
(* coroutine of the one event loop of the process: it gives control away   *)
(* at `await _json_body(request)` and nowhere after it, so what follows    *)
(* the await (the call of store.mutate_tags, which has no await in it) is   *)
(* one step                                                                *)

\* mutate_tags route, line 129: the handler is entered and waits for the body
TagReceive(h, r, tags_to_add, tags_to_remove) ==
    /\ tag_requests[h].pc = "idle"
    /\ tag_requests' = [tag_requests EXCEPT ![h] =
                          [pc |-> "parsed", run |-> r, tags_to_add |-> tags_to_add,
                           tags_to_remove |-> tags_to_remove]]
    /\ UNCHANGED <<storeVars, ret, daemonVars, idleVars, extraVars, allocVars, tag_history>>

\* mutate_tags route, lines 130-136: the body has come, store.mutate_tags is
\* called and the response is built
TagServe(h) ==
    LET req == tag_requests[h]
        res == mutate_tags(files, TaskFlow, req.run, req.tags_to_add, req.tags_to_remove)
        others == {g \in HandlerIds \ {h} : tag_requests[g].pc = "parsed"}
    IN  /\ req.pc = "parsed"
        /\ IF res.writes
           THEN \E tags \in ListsOf(res.tags),
                   system_tags \in ListsOf(Items(files[<<TaskFlow, req.run>>].system_tags)) :
                    files' = [files EXCEPT ![<<TaskFlow, req.run>>].tags = tags,
                                           ![<<TaskFlow, req.run>>].system_tags = system_tags]
           ELSE files' = files
        /\ tag_requests' = [tag_requests EXCEPT ![h] = [pc |-> "done"]]
        /\ tag_history' =
              IF res.raised THEN tag_history
              ELSE [initial |-> IF tag_history.served = <<>>
                                THEN Items(files[<<TaskFlow, req.run>>].tags)
                                ELSE tag_history.initial,
                    served |-> Append(tag_history.served,
                                      [run |-> req.run, tags_to_add |-> req.tags_to_add,
                                       tags_to_remove |-> req.tags_to_remove,
                                       in_flight |-> others])]
        /\ ret' = [op |-> "mutate_tags", flow |-> TaskFlow, run |-> req.run,
                   tags_to_add |-> req.tags_to_add, tags_to_remove |-> req.tags_to_remove,
                   raised |-> res.raised, tags |-> res.tags]
        /\ UNCHANGED <<task_counters, last_run_id, issued_tasks, proc_tasks, issued_runs,
                       proc_runs, registryVars, daemonVars, idleVars, extraVars, allocVars>>

----------------------------------------------------------------------------
(* get_or_create_flow and get_or_create_step called by several processes   *)
(* on one .metaflow tree, step by step: the lookup, then _save_meta, which  *)
(* store.py, lines 10-12, relies on for "the atomic tempfile/rename         *)
(* pattern": the test for the file, the temporary file in the directory of *)
(* the file, the dump into it, the rename onto the file                    *)

\* the temporary file of a process: NamedTemporaryFile gives every call a
\* name of its own
SharedTemp(p) == "tmp_p1"

TempOf(p) == IF p = "p1" THEN "tmp_p1" ELSE "tmp_p2"

\* the file the dump is opened on: the temporary file, which holds nothing
\* loadable until the dump is over
OpenFinal(fs, tmp, p, key) ==
    [fs |-> [q \in DOMAIN fs \cup {key} |-> IF q = key THEN Unparsable ELSE fs[q]],
     tmp |-> tmp]

OpenTemp(fs, tmp, p, key) ==
    [fs |-> fs, tmp |-> [tmp EXCEPT ![TempOf(p)] = Unparsable]]

\* get_or_create_flow, lines 209-212, and get_or_create_step, lines 248-251:
\* the record that exists is returned, or the record is built
WriteCall(p, key, record) ==
    /\ writers[p].pc = "idle"
    /\ IF GetSelf(files, key) # None
       THEN /\ ret' = [op |-> "get_or_create", proc |-> p, key |-> key,
                       record |-> GetSelf(files, key), created |-> FALSE,
                       replaced |-> FALSE]
            /\ UNCHANGED <<writers, built>>
       ELSE /\ writers' = [writers EXCEPT ![p] =
                            [pc |-> "built", key |-> key, record |-> record]]
            /\ built' = built \cup {<<key, record>>}
            /\ UNCHANGED ret
    /\ UNCHANGED <<storeVars, temp_files, daemonVars, idleVars, allocVars, requestVars, setupVars>>

\* _save_meta: a file that exists is left as it is, and the call returns
SaveCheck(p) ==
    /\ writers[p].pc = "built"
    /\ IF writers[p].key \in DOMAIN files
       THEN /\ writers' = [writers EXCEPT ![p] = [pc |-> "idle"]]
            /\ ret' = [op |-> "get_or_create", proc |-> p, key |-> writers[p].key,
                       record |-> writers[p].record, created |-> TRUE,
                       replaced |-> FALSE]
       ELSE /\ writers' = [writers EXCEPT ![p].pc = "checked"]
            /\ UNCHANGED ret
    /\ UNCHANGED <<storeVars, temp_files, built, daemonVars, idleVars, allocVars,
                   requestVars, setupVars>>

\* _save_meta: the temporary file is created and the dump into it begins
SaveOpen(p) ==
    LET res == OpenTemp(files, temp_files, p, writers[p].key)
    IN  /\ writers[p].pc = "checked"
        /\ files' = res.fs
        /\ temp_files' = res.tmp
        /\ writers' = [writers EXCEPT ![p].pc = "writing"]
        /\ UNCHANGED <<task_counters, last_run_id, issued_tasks, proc_tasks, issued_runs,
                       proc_runs, ret, built, registryVars, daemonVars, idleVars,
                       allocVars, requestVars, setupVars>>

\* _save_meta: the dump is over and the temporary file is closed
SaveDump(p) ==
    /\ writers[p].pc = "writing"
    /\ temp_files' = [temp_files EXCEPT ![TempOf(p)] = writers[p].record]
    /\ writers' = [writers EXCEPT ![p].pc = "dumped"]
    /\ UNCHANGED <<storeVars, ret, built, daemonVars, idleVars, allocVars, requestVars, setupVars>>

\* _save_meta: os.rename(temporary file, file) puts what the temporary file
\* holds at the path, over a file that has come to be there since the test
SaveRename(p) ==
    /\ writers[p].pc = "dumped"
    /\ files' = SaveMetaOverwrite(files, writers[p].key, temp_files[TempOf(p)])
    /\ temp_files' = [temp_files EXCEPT ![TempOf(p)] = NoFile]
    /\ writers' = [writers EXCEPT ![p] = [pc |-> "idle"]]
    /\ ret' = [op |-> "get_or_create", proc |-> p, key |-> writers[p].key,
               record |-> writers[p].record, created |-> TRUE,
               replaced |-> writers[p].key \in DOMAIN files]
    /\ UNCHANGED <<task_counters, last_run_id, issued_tasks, proc_tasks, issued_runs,
                   proc_runs, built, registryVars, daemonVars, idleVars, allocVars,
                   requestVars, setupVars>>

\* the process is killed inside the call: nothing of it runs any more, and
\* its temporary file stays where it is
CrashInWrite(p) ==
    /\ writers[p].pc # "idle"
    /\ writers' = [writers EXCEPT ![p] = [pc |-> "idle"]]
    /\ ret' = [op |-> "crash_in_write", proc |-> p, key |-> writers[p].key,
               at |-> writers[p].pc]
    /\ UNCHANGED <<storeVars, temp_files, built, daemonVars, idleVars, allocVars,
                   requestVars, setupVars>>

----------------------------------------------------------------------------
(* setup called from several threads of one process, step by step          *)

\* os.path.realpath(os.path.join(metaflow_root, _METAFLOW_DIR))
_METAFLOW_DIR == ".metaflow"

MetaDir(metaflow_root) == <<metaflow_root, _METAFLOW_DIR>>

\* setup, line 47: if _initialized
NeverInitialized(flag) == FALSE

AlreadyInitialized(flag) == flag

\* setup is called
SetupCall(t, metaflow_root) ==
    /\ setup_threads[t].pc = "idle"
    /\ setup_threads' = [setup_threads EXCEPT ![t] =
                            [pc |-> "waiting", metaflow_root |-> metaflow_root,
                             early |-> ~initialized]]
    /\ UNCHANGED <<storeVars, ret, daemonVars, idleVars, allocVars, requestVars, writeVars,
                   initialized, datastore_root, metadirs, setup_lock, initializations>>

\* setup, line 46: with _setup_lock
SetupAcquire(t) ==
    /\ setup_threads[t].pc = "waiting"
    /\ LockFree(setup_lock)
    /\ setup_lock' = t
    /\ setup_threads' = [setup_threads EXCEPT ![t].pc = "locked"]
    /\ UNCHANGED <<storeVars, ret, daemonVars, idleVars, allocVars, requestVars, writeVars,
                   initialized, datastore_root, metadirs, initializations>>

\* setup, lines 47-48: a store that is initialized is left as it is, the lock
\* is released and the call returns
SetupTest(t) ==
    /\ setup_threads[t].pc = "locked"
    /\ IF AlreadyInitialized(initialized)
       THEN /\ setup_lock' = NoThread
            /\ setup_threads' = [setup_threads EXCEPT ![t] = [pc |-> "idle"]]
            /\ ret' = [op |-> "setup", metaflow_root |-> setup_threads[t].metaflow_root,
                       early |-> setup_threads[t].early, noop |-> TRUE]
       ELSE /\ setup_threads' = [setup_threads EXCEPT ![t].pc = "initializing"]
            /\ UNCHANGED <<setup_lock, ret>>
    /\ UNCHANGED <<storeVars, daemonVars, idleVars, allocVars, requestVars, writeVars,
                   initialized, datastore_root, metadirs, initializations>>

\* setup, lines 49-53: the directory is made and LocalStorage pointed at it
SetupInit(t) ==
    LET metadir == MetaDir(setup_threads[t].metaflow_root)
    IN  /\ setup_threads[t].pc = "initializing"
        /\ metadirs' = metadirs \cup {metadir}
        /\ datastore_root' = metadir
        /\ setup_threads' = [setup_threads EXCEPT ![t].pc = "rooted"]
        /\ UNCHANGED <<storeVars, ret, daemonVars, idleVars, allocVars, requestVars,
                       writeVars, initialized, setup_lock, initializations>>

\* setup, line 54: _initialized = True, and the lock is released
SetupFinish(t) ==
    /\ setup_threads[t].pc = "rooted"
    /\ initialized' = TRUE
    /\ initializations' = Append(initializations, setup_threads[t].metaflow_root)
    /\ setup_lock' = NoThread
    /\ setup_threads' = [setup_threads EXCEPT ![t] = [pc |-> "idle"]]
    /\ ret' = [op |-> "setup", metaflow_root |-> setup_threads[t].metaflow_root,
               early |-> setup_threads[t].early, noop |-> FALSE]
    /\ UNCHANGED <<storeVars, daemonVars, idleVars, allocVars, requestVars, writeVars,
                   datastore_root, metadirs>>

----------------------------------------------------------------------------
(* The idle monitor of a daemon: _run_server starts it as a thread beside  *)
(* the server, whose heartbeat routes write server.last_heartbeat_at       *)

\* _idle_monitor, line 279: silence > idle_timeout
NeverExceeds(silence, idle_timeout) == FALSE
Reaches(silence, idle_timeout) == silence >= idle_timeout

Exceeds(silence, idle_timeout) == silence > idle_timeout

\* _run_server: the import of server sets last_heartbeat_at to the time of the
\* import (server.py, line 40) and the monitor thread starts its first sleep
\* _idle_monitor, line 277: time.sleep(30) returns a check interval later
WakesLate(t) == t + MonitorInterval + MonitorInterval

WakeAfter(t) == t + MonitorInterval

RunServer(idle_timeout) ==
    /\ monitor.phase = "none"
    /\ last_heartbeat_at' = now
    /\ monitor' = [phase |-> "sleeping", idle_timeout |-> idle_timeout,
                   wake |-> WakeAfter(now)]
    /\ UNCHANGED <<now, should_exit, ret, storeVars, daemonVars,
                   allocVars, requestVars, extraVars>>

\* time passes in the daemon, from the start of _run_server to the request
\* that ends the server
Tick(d) ==
    /\ monitor.phase # "none"
    /\ ~should_exit
    /\ now + d <= MaxTime
    /\ now' = now + d
    /\ UNCHANGED <<last_heartbeat_at, monitor, should_exit, ret, storeVars, daemonVars,
                   allocVars, requestVars, extraVars>>

\* run_heartbeat and task_heartbeat of server.py: last_heartbeat_at = time.time()
\* last_heartbeat_at = time.time() in a heartbeat route
KeepsLast(last, t) == last

Beat(last, t) == t

Heartbeat ==
    /\ monitor.phase # "none"
    /\ now <= HeartbeatsUntil
    /\ last_heartbeat_at' = Beat(last_heartbeat_at, now)
    /\ UNCHANGED <<now, monitor, should_exit, ret, storeVars, daemonVars,
                   allocVars, requestVars, extraVars>>

\* _idle_monitor, lines 277-279: the sleep has ended, at its time or later; the
\* thread computes the silence and compares it
\* POST /flows/{flow_name}/runs/{run_id}/heartbeat
HttpRunHeartbeat(f, r) ==
    /\ monitor.phase # "none"
    /\ last_heartbeat_at' = Beat(last_heartbeat_at, now)
    /\ ret' = [op |-> "run_heartbeat", key |-> <<f, r>>, at |-> now,
               should_exit |-> should_exit,
               wait_time_in_seconds |-> _HEARTBEAT_INTERVAL_SECONDS]
    /\ UNCHANGED <<now, monitor, should_exit, storeVars, daemonVars,
                   allocVars, requestVars, extraVars>>

\* POST /flows/{flow_name}/runs/{run_id}/steps/{step_name}/tasks/{task_id}/heartbeat
HttpTaskHeartbeat(f, r, s, t) ==
    /\ monitor.phase # "none"
    /\ last_heartbeat_at' = Beat(last_heartbeat_at, now)
    /\ ret' = [op |-> "task_heartbeat", key |-> <<f, r, s, t>>, at |-> now,
               should_exit |-> should_exit,
               wait_time_in_seconds |-> _HEARTBEAT_INTERVAL_SECONDS]
    /\ UNCHANGED <<now, monitor, should_exit, storeVars, daemonVars,
                   allocVars, requestVars, extraVars>>

\* time passes, and the idle monitor is on time: its sleep ends when the
\* interval is over, and what follows the sleep takes no time
PunctualTick(d) ==
    /\ monitor.phase = "sleeping" => now + d <= monitor.wake
    /\ monitor.phase # "requesting"
    /\ Tick(d)

MonitorCheck ==
    LET silence == now - last_heartbeat_at
    IN  /\ monitor.phase = "sleeping"
        /\ now >= monitor.wake
        /\ monitor' = IF Exceeds(silence, monitor.idle_timeout)
                      THEN [phase |-> "requesting", idle_timeout |-> monitor.idle_timeout,
                            silence |-> silence]
                      ELSE [monitor EXCEPT !.wake = WakeAfter(now)]
        /\ UNCHANGED <<now, last_heartbeat_at, should_exit, ret, storeVars, daemonVars,
                   allocVars, requestVars, extraVars>>

\* _idle_monitor, lines 280-281: uv_server.should_exit = True; break
\* _idle_monitor, line 281: break ends the loop, and the thread with it
NoBreak(m) == [phase |-> "sleeping", idle_timeout |-> m.idle_timeout, wake |-> 0]

Break(m) == [m EXCEPT !.phase = "done"]

MonitorRequest ==
    /\ monitor.phase = "requesting"
    /\ should_exit' = TRUE
    /\ monitor' = Break(monitor)
    /\ UNCHANGED <<now, last_heartbeat_at, ret, storeVars, daemonVars,
                   allocVars, requestVars, extraVars>>

----------------------------------------------------------------------------
(* Spec: flows and runs, for clients of both flows and any wall clock;     *)
(* flows are created with any request body, runs with the empty one        *)

Next ==
    \/ \E f \in FlowNames, body \in Bodies, w \in WallClock : GetOrCreateFlow(f, body, w)
    \/ \E f \in FlowNames, w \in WallClock : CreateRun(f, EmptyBody, w)
    \/ \E f \in FlowNames : ListRuns(f)
    \/ Restart

Spec == Init /\ [][Next]_vars

(* SpecTasks: steps and tasks of one flow, whose client starts one run and *)
(* names that run, or a run id of its own, in its step and task requests   *)

\* the reading of the wall clock when the client of SpecTasks starts its run
StartWall == CHOOSE w \in WallClock : \A x \in WallClock : w <= x

StartRun ==
    /\ RunsOf(files, TaskFlow) = {}
    /\ CreateRun(TaskFlow, EmptyBody, StartWall)

NextTasks ==
    \/ StartRun
    \/ \E s \in StepNames, r \in RunArgs(TaskFlow) :
         GetOrCreateStep(TaskFlow, r, s, EmptyBody, StartWall)
    \/ \E s \in StepNames, r \in RunArgs(TaskFlow) :
         CreateTask(TaskFlow, r, s, EmptyBody, StartWall)
    \/ \E s \in StepNames, r \in RunArgs(TaskFlow) :
         CrashInCreateTask(TaskFlow, r, s, EmptyBody, StartWall)
    \/ Restart

SpecTasks == Init /\ [][NextTasks]_vars

(* SpecSteps: the steps of that flow, created with any request body *)

NextSteps ==
    \/ StartRun
    \/ \E s \in StepNames, body \in Bodies, w \in WallClock :
         \E r \in RunArgs(TaskFlow) : GetOrCreateStep(TaskFlow, r, s, body, w)
    \/ Restart

SpecSteps == Init /\ [][NextSteps]_vars

\* the client creates as many tasks as it names
CreateNamedTask ==
    /\ Cardinality(issued_tasks) < Cardinality(TaskIds)
    /\ \E r \in StartedRuns(TaskFlow) :
         CreateTask(TaskFlow, r, RegistryStep, EmptyBody, StartWall)

(* SpecArtifacts: the client starts one run, creates two tasks under its   *)
(* step "start", registers artifacts under the task ids "1" and "2" and    *)
(* one metadata entry about the output of the first, and reads the         *)
(* artifacts back                                                          *)

NextArtifacts ==
    \/ StartRun
    \/ CreateNamedTask
    \/ \E r \in StartedRuns(TaskFlow), t \in TaskIds, artifacts \in ArtifactLists :
         RegisterArtifacts(TaskFlow, r, RegistryStep, t, artifacts)
    \/ \E r \in StartedRuns(TaskFlow), t \in TaskIds,
          attempt \in {NoFilter} \cup {Filter(k) : k \in Attempts} :
         GetArtifacts(TaskFlow, r, RegistryStep, t, attempt)
    \/ \E r \in StartedRuns(TaskFlow) :
         RegisterMetadata(TaskFlow, r, RegistryStep, DecStr(1), <<OutputEntry>>, StartWall)

SpecArtifacts == Init /\ [][NextArtifacts]_vars

(* SpecMetadata: the client registers metadata entries under the first     *)
(* task of its run, at any reading of the clock, and reads them back       *)

NextMetadata ==
    \/ StartRun
    \/ CreateNamedTask
    \/ \E r \in StartedRuns(TaskFlow), metadata \in MetadataLists, w \in MetaClock :
         RegisterMetadata(TaskFlow, r, RegistryStep, DecStr(1), metadata, w)
    \/ \E r \in StartedRuns(TaskFlow) :
         GetMetadata(TaskFlow, r, RegistryStep, DecStr(1))

SpecMetadata == Init /\ [][NextMetadata]_vars

(* SpecTags: the client starts one run, with or without tags, and mutates  *)
(* the tags of that run, or of a run that does not exist                   *)

StartTaggedRun ==
    /\ RunsOf(files, TaskFlow) = {}
    /\ \E body \in Bodies : CreateRun(TaskFlow, body, StartWall)

NextTags ==
    \/ StartTaggedRun
    \/ \E r \in RunArgs(TaskFlow), tags_to_add \in TagLists, tags_to_remove \in TagLists :
         MutateTags(TaskFlow, r, tags_to_add, tags_to_remove)
    \/ Restart

SpecTags == Init /\ [][NextTags]_vars

(* SpecDaemon: clients that call status, start and stop, the daemons start *)
(* spawns, and kills from outside                                          *)

NextDaemon ==
    \/ Status
    \/ \E c \in OneClient, port \in PortArgs, metaflow_root \in RootArgs,
          idle_timeout \in IdleTimeoutArgs :
         StartBegin(c, port, metaflow_root, idle_timeout)
    \/ \E c \in OneClient : StartPoll(c)
    \/ Stop
    \/ \E p \in DOMAIN procs : DaemonFailsToStart(p)
    \/ \E p \in DOMAIN procs : DaemonOpenState(p)
    \/ \E p \in DOMAIN procs : DaemonWriteState(p)
    \/ \E p \in DOMAIN procs : DaemonWritePid(p)
    \/ \E p \in DOMAIN procs : DaemonServe(p)
    \/ \E p \in DOMAIN procs : DaemonExit(p)
    \/ \E p \in DOMAIN procs : KillDaemon(p)

SpecDaemon == Init /\ [][NextDaemon]_vars

(* SpecDaemonFair: the client that is inside start() keeps running: every  *)
(* turn of its loop ends (urlopen has a timeout of 1 s, the sleep is 0.2   *)
(* s) and the next one begins                                              *)

SpecDaemonFair == SpecDaemon /\ \A c \in OneClient : WF_vars(StartPoll(c))

(* SpecClients: client processes that call status, start and stop side by  *)
(* side, so that one of them may be inside start() while another calls it, *)
(* and the daemons they spawn; start() is called with a port or without,   *)
(* and with the root and the idle timeout it has by default                *)

NextClients ==
    \/ Status
    \/ \E c \in Clients, port \in PortArgs :
         StartBegin(c, port, NoRoot, _DEFAULT_IDLE_TIMEOUT)
    \/ \E c \in Clients : StartPoll(c)
    \/ Stop
    \/ \E p \in DOMAIN procs : DaemonFailsToStart(p)
    \/ \E p \in DOMAIN procs : DaemonOpenState(p)
    \/ \E p \in DOMAIN procs : DaemonWriteState(p)
    \/ \E p \in DOMAIN procs : DaemonWritePid(p)
    \/ \E p \in DOMAIN procs : DaemonServe(p)
    \/ \E p \in DOMAIN procs : DaemonExit(p)

SpecClients == Init /\ [][NextClients]_vars

(* SpecThreads: one run, and threads of the service process that create    *)
(* tasks under that run, or under a run id of the client's own, side by    *)
(* side; the process may end at any point                                  *)

NextThreads ==
    \/ StartRun
    \/ \E t \in ThreadIds, r \in RunArgs(TaskFlow) : AllocBegin(t, r, StartWall)
    \/ \E t \in ThreadIds : AllocAcquire(t)
    \/ \E t \in ThreadIds : AllocSeed(t)
    \/ \E t \in ThreadIds : AllocIncrement(t)
    \/ \E t \in ThreadIds : AllocReturn(t)
    \/ \E t \in ThreadIds : AllocSave(t, StartWall)
    \/ RestartThreads

SpecThreads == Init /\ [][NextThreads]_vars

(* SpecScan: the client of SpecTasks creates tasks of one step while       *)
(* another program writes task records of its own under the same runs     *)

NextScan ==
    \/ StartRun
    \/ \E r \in RunArgs(TaskFlow) :
         CreateTask(TaskFlow, r, RegistryStep, EmptyBody, StartWall)
    \/ \E r \in RunArgs(TaskFlow), id \in OutsideTaskIds :
         WriteTaskFromOutside(TaskFlow, r, RegistryStep, id, StartWall)
    \/ Restart

SpecScan == Init /\ [][NextScan]_vars

(* SpecRequests: the client of SpecTags starts one run and sends one tag   *)
(* mutation per handler, for that run or for a run that does not exist,    *)
(* without waiting for the answer of one before it sends the other         *)

NextRequests ==
    \/ StartTaggedRun
    \/ \E h \in HandlerIds, r \in RunArgs(TaskFlow),
          tags_to_add \in TagLists, tags_to_remove \in TagLists :
         TagReceive(h, r, tags_to_add, tags_to_remove)
    \/ \E h \in HandlerIds : TagServe(h)

SpecRequests == Init /\ [][NextRequests]_vars

(* SpecWrites: two processes on one .metaflow tree call get_or_create_flow *)
(* for one flow, and get_or_create_step for one step of a run, with the    *)
(* bodies of their clients; either may be killed at any point              *)

\* the run under which the processes of SpecWrites create their step
WriteRun == ForeignRun

NextWrites ==
    \/ \E p \in WriterIds, body \in Bodies :
         WriteCall(p, <<TaskFlow>>, _build_flow_record(TaskFlow, body, StartWall))
    \/ \E p \in WriterIds, body \in Bodies :
         WriteCall(p, <<TaskFlow, WriteRun, RegistryStep>>,
                   _build_step_record(TaskFlow, WriteRun, RegistryStep, body, StartWall))
    \/ \E p \in WriterIds : SaveCheck(p)
    \/ \E p \in WriterIds : SaveOpen(p)
    \/ \E p \in WriterIds : SaveDump(p)
    \/ \E p \in WriterIds : SaveRename(p)
    \/ \E p \in WriterIds : CrashInWrite(p)

SpecWrites == Init /\ [][NextWrites]_vars

(* SpecStore: one process serves every writing operation of the store for *)
(* one flow: the flow, one run with or without tags, its step "start",     *)
(* tasks, artifacts, metadata and tag mutations                            *)

NextStore ==
    \/ \E body \in Bodies : GetOrCreateFlow(TaskFlow, body, StartWall)
    \/ StartTaggedRun
    \/ \E r \in StartedRuns(TaskFlow), body \in Bodies :
         GetOrCreateStep(TaskFlow, r, RegistryStep, body, StartWall)
    \/ CreateNamedTask
    \/ \E r \in StartedRuns(TaskFlow), artifacts \in ArtifactLists :
         RegisterArtifacts(TaskFlow, r, RegistryStep, DecStr(1), artifacts)
    \/ \E r \in StartedRuns(TaskFlow) :
         RegisterMetadata(TaskFlow, r, RegistryStep, DecStr(1), <<OutputEntry>>, StartWall)
    \/ \E r \in StartedRuns(TaskFlow), tags_to_add \in TagLists, tags_to_remove \in TagLists :
         MutateTags(TaskFlow, r, tags_to_add, tags_to_remove)

SpecStore == Init /\ [][NextStore]_vars

(* SpecBeat: a running service whose clients send heartbeats for runs and *)
(* tasks at any time, also after the idle monitor has asked for the exit,  *)
(* and call other routes in between; time is counted in check intervals    *)

NextBeat ==
    \/ \E idle_timeout \in IdleTimeoutArgs : RunServer(idle_timeout)
    \/ Tick(MonitorInterval)
    \/ \E r \in RunArgs(TaskFlow) : HttpRunHeartbeat(TaskFlow, r)
    \/ \E r \in RunArgs(TaskFlow) :
         HttpTaskHeartbeat(TaskFlow, r, RegistryStep, DecStr(1))
    \/ HttpCreateFlow(TaskFlow, EmptyBody, StartWall)
    \/ RunsOf(files, TaskFlow) = {} /\ HttpCreateRun(TaskFlow, EmptyBody, StartWall)
    \/ HttpGetFlow(TaskFlow)
    \/ ListRuns(TaskFlow)
    \/ MonitorCheck
    \/ MonitorRequest

SpecBeat == Init /\ [][NextBeat]_vars

(* SpecPunctual: the service of SpecIdle with an idle monitor that is on   *)
(* time, and idle timeouts on both sides of its interval                   *)

NextPunctual ==
    \/ \E idle_timeout \in {BriefIdleTimeout, ShortIdleTimeout} : RunServer(idle_timeout)
    \/ \E d \in TimeSteps : PunctualTick(d)
    \/ Heartbeat
    \/ ListRuns(TaskFlow)
    \/ MonitorCheck
    \/ MonitorRequest

SpecPunctual == Init /\ [][NextPunctual]_vars

(* SpecSetup: the threads of one process call setup with one root or      *)
(* another, again and again                                                *)

\* the roots setup is called with
SetupRoots == {Cwd} \cup (RootArgs \ {NoRoot})

NextSetup ==
    \/ \E t \in ThreadIds, metaflow_root \in SetupRoots : SetupCall(t, metaflow_root)
    \/ \E t \in ThreadIds : SetupAcquire(t)
    \/ \E t \in ThreadIds : SetupTest(t)
    \/ \E t \in ThreadIds : SetupInit(t)
    \/ \E t \in ThreadIds : SetupFinish(t)

SpecSetup == Init /\ [][NextSetup]_vars

(* SpecDamage: the client of SpecArtifacts registers one artifact at a time *)
(* under its tasks, files of the _meta directories are damaged, and the    *)
(* client reads the artifacts back                                         *)

NextDamage ==
    \/ StartRun
    \/ CreateNamedTask
    \/ \E r \in StartedRuns(TaskFlow), t \in TaskIds, a \in Artifacts :
         RegisterArtifacts(TaskFlow, r, RegistryStep, t, <<a>>)
    \/ \E p \in DOMAIN files : DamageFile(p)
    \/ \E r \in StartedRuns(TaskFlow), t \in TaskIds,
          attempt \in {NoFilter} \cup {Filter(k) : k \in Attempts} :
         GetArtifacts(TaskFlow, r, RegistryStep, t, attempt)

SpecDamage == Init /\ [][NextDamage]_vars

(* SpecHttp: a client of the routes of server.py: it creates the flows,    *)
(* one run of its flow, steps and tasks under that run or under a run id   *)
(* of its own, and reads flows, runs, steps, tasks, artifacts and metadata *)
(* by any name                                                             *)

NextHttp ==
    \/ \E f \in FlowNames, body \in Bodies : HttpCreateFlow(f, body, StartWall)
    \/ RunsOf(files, TaskFlow) = {} /\ HttpCreateRun(TaskFlow, EmptyBody, StartWall)
    \/ \E r \in RunArgs(TaskFlow), s \in StepNames :
         HttpCreateStep(TaskFlow, r, s, EmptyBody, StartWall)
    \/ \E r \in RunArgs(TaskFlow), s \in StepNames :
         /\ Cardinality(issued_tasks) < Cardinality(TaskIds)
         /\ HttpCreateTask(TaskFlow, r, s, EmptyBody, StartWall)
    \/ \E f \in FlowNames : HttpGetFlow(f)
    \/ \E r \in RunArgs(TaskFlow) : HttpGetRun(TaskFlow, r)
    \/ \E r \in RunArgs(TaskFlow), s \in StepNames : HttpGetStep(TaskFlow, r, s)
    \/ \E r \in RunArgs(TaskFlow), s \in StepNames, t \in TaskIds :
         HttpGetTask(TaskFlow, r, s, t)
    \/ \E f \in FlowNames : ListRuns(f)
    \/ \E r \in RunArgs(TaskFlow) : ListSteps(TaskFlow, r)
    \/ \E r \in RunArgs(TaskFlow), s \in StepNames : ListTasks(TaskFlow, r, s)
    \/ \E r \in RunArgs(TaskFlow), s \in StepNames, t \in TaskIds :
         GetArtifacts(TaskFlow, r, s, t, NoFilter)
    \/ \E r \in RunArgs(TaskFlow), s \in StepNames, t \in TaskIds :
         GetMetadata(TaskFlow, r, s, t)

SpecHttp == Init /\ [][NextHttp]_vars

(* SpecIdle: one daemon from the start of _run_server on: time passes, the *)
(* server serves heartbeats and other requests, the monitor thread runs    *)

NextIdle ==
    \/ \E idle_timeout \in IdleTimeoutArgs : RunServer(idle_timeout)
    \/ \E d \in TimeSteps : Tick(d)
    \/ Heartbeat
    \/ ListRuns(TaskFlow)
    \/ MonitorCheck
    \/ MonitorRequest

SpecIdle == Init /\ [][NextIdle]_vars

(* SpecIdleFair: time passes, and the monitor thread is scheduled: a check *)
(* that is due is made and a request that was decided is made              *)

SpecIdleFair ==
    /\ SpecIdle
    /\ WF_vars(\E d \in TimeSteps : Tick(d))
    /\ WF_vars(MonitorCheck)
    /\ WF_vars(MonitorRequest)

----------------------------------------------------------------------------
(* Properties *)

\* the step just taken is a call of op that returned
Called(op) == ret' # ret /\ ret'.op = op

\* the task ids persisted under any step of run r of flow f, as numbers
PersistedTaskIds(fs, f, r) ==
    {DecInt(p[4]) : p \in {q \in DOMAIN fs : Len(q) = 4 /\ q[1] = f /\ q[2] = r}}

\* the ids of a history h of <<flow, run, id>> that belong to run r of flow f
IdsOf(h, f, r) == {e[3] : e \in {x \in h : x[1] = f /\ x[2] = r}}

\* C1: within one service process, every task id create_task returns for a
\* (flow, run) is numerically greater than every task id it returned before
\* for that (flow, run) in that process.
C1_TaskIdsIncreaseInProcess ==
    [][Called("create_task") =>
        \A id \in IdsOf(proc_tasks, ret'.flow, ret'.run) :
            DecInt(ret'.record.task_id) > id]_vars

\* C1's case: create_task has returned a second id for a run in one process
C1_Witness ==
    /\ ret.op = "create_task"
    /\ Cardinality(IdsOf(proc_tasks, ret.flow, ret.run)) >= 2

\* no two persisted tasks of a run share a task id, whatever their steps
NoSharedTaskId ==
    \A p, q \in {x \in DOMAIN files : Len(x) = 4} :
        (p[1] = q[1] /\ p[2] = q[2] /\ DecInt(p[4]) = DecInt(q[4])) => p = q

\* C2: no two persisted tasks of a run share a task id, whatever their steps,
\* and every id create_task returns is greater than the id of every task already
\* persisted under any step of the run (process restarts included), and is the
\* id the task is persisted under.
C2_TaskIdsSharedAcrossSteps ==
    /\ []NoSharedTaskId
    /\ [][Called("create_task") =>
            /\ \A id \in PersistedTaskIds(files, ret'.flow, ret'.run) :
                   DecInt(ret'.record.task_id) > id
            /\ files'[<<ret'.flow, ret'.run, ret'.step, ret'.record.task_id>>] = ret'.record
         ]_vars

\* C2's case: a run holds tasks under two different steps
C2_Witness ==
    \E p, q \in {x \in DOMAIN files : Len(x) = 4} :
        p[1] = q[1] /\ p[2] = q[2] /\ p[3] # q[3]

\* C3: the first create_task for a (flow, run) in a process returns max + 1,
\* max being the largest task id persisted under any step of the run (0 if
\* there is none), and so writes no task that is already persisted.
C3_SeededFromDisk ==
    [][(Called("create_task") /\ <<ret'.flow, ret'.run>> \notin DOMAIN task_counters) =>
        /\ ret'.record.task_id =
               DecStr(1 + SetMax(PersistedTaskIds(files, ret'.flow, ret'.run)))
        /\ <<ret'.flow, ret'.run, ret'.step, ret'.record.task_id>> \notin DOMAIN files
      ]_vars

\* C3's case: the first create_task of a restarted process on a run that holds
\* a task under another step
C3_Witness ==
    /\ ret.op = "create_task"
    /\ ret.seeded
    /\ \E p \in DOMAIN files :
          /\ Len(p) = 4 /\ p[1] = ret.flow /\ p[2] = ret.run /\ p[3] # ret.step
          /\ DecInt(p[4]) + 1 = DecInt(ret.record.task_id)

\* the id _next_task_id returned in the call ret describes
IssuedId(r) == IF r.op = "create_task" THEN r.record.task_id ELSE r.task_id

\* C4: a task id _next_task_id has returned for a (flow, run) is never returned
\* again for that (flow, run), also when the process died before create_task
\* persisted the task and the service was started again.
C4_TaskIdNeverReissued ==
    [][(Called("create_task") \/ Called("crash_in_create_task")) =>
        DecInt(IssuedId(ret')) \notin IdsOf(issued_tasks, ret'.flow, ret'.run)]_vars

\* C4's case is reached when an id was issued and the process died before the
\* task was persisted
C4_IssuedNotPersisted ==
    /\ ret.op = "crash_in_create_task"
    /\ <<ret.flow, ret.run, ret.step, ret.task_id>> \notin DOMAIN files

\* C5: within one process, every new_run_id call returns a decimal value greater
\* than the value every earlier call returned, whatever the wall clock reads.
C5_RunIdsIncreaseInProcess ==
    [][Called("create_run") =>
        /\ \A id \in proc_runs : DecInt(ret'.record.run_number) > id
        /\ DecInt(ret'.record.run_number) >= ret'.wall]_vars

\* C5's case: the wall clock did not pass the last id (it stalled or stepped
\* back), and new_run_id returned a third id in the process
C5_Witness ==
    /\ ret.op = "create_run"
    /\ DecInt(ret.record.run_number) > ret.wall
    /\ Cardinality(proc_runs) >= 3

\* C6: on one store, every run id create_run issues is greater than every run
\* id issued before, in any flow and in any earlier process, so create_run
\* never writes to the key of a run that already exists.
C6_RunIdsUniqueAcrossRestarts ==
    [][Called("create_run") =>
        /\ \A id \in issued_runs : DecInt(ret'.record.run_number) > id
        /\ \A g \in FlowNames : <<g, ret'.record.run_number>> \notin DOMAIN files]_vars

\* C7: the first get_or_create_flow of a flow name returns (record, True) and
\* stores that record; a later one returns (the stored record, False) and leaves
\* the store as it is, whatever body it is given.
C7_FlowCreateIdempotent ==
    [][Called("get_or_create_flow") =>
        IF <<ret'.flow>> \in DOMAIN files
        THEN /\ ~ret'.created
             /\ ret'.record = files[<<ret'.flow>>]
             /\ files' = files
        ELSE /\ ret'.created
             /\ ret'.record.flow_id = ret'.flow
             /\ ret'.record.user_name = UserName(ret'.body)
             /\ ret'.record.tags = ret'.body.tags
             /\ files'[<<ret'.flow>>] = ret'.record]_vars

\* C7's case: a second get_or_create_flow, with a body that would build another record
C7_Witness ==
    /\ ret.op = "get_or_create_flow"
    /\ ~ret.created
    /\ ret.record.user_name # UserName(ret.body)

C9_CreateRunAlwaysFresh ==
    [][Called("create_run") =>
        /\ <<ret'.flow, ret'.record.run_number>> \notin DOMAIN files
        /\ files'[<<ret'.flow, ret'.record.run_number>>] = ret'.record
        /\ list_runs(files', ret'.flow) = list_runs(files, ret'.flow) \cup {ret'.record}
        /\ Cardinality(list_runs(files', ret'.flow))
             = Cardinality(list_runs(files, ret'.flow)) + 1
        /\ \A g \in FlowNames \ {ret'.flow} :
             list_runs(files', g) = list_runs(files, g)]_vars

\* C10: every persisted run has a persisted flow, every persisted step a
\* persisted run and every persisted task a persisted step.
C10_ParentExists ==
    \A p \in DOMAIN files :
        Len(p) > 1 => SubSeq(p, 1, Len(p) - 1) \in DOMAIN files

\* C11: in a run create_run has just stored, with no task on disk, the first
\* create_task that returns gives the task id "1", and the next one, the run
\* then holding that task alone, gives the task id "2".
C11_FirstTwoTaskIds ==
    [][(Called("create_task") /\ <<ret'.flow, ret'.run>> \in DOMAIN files) =>
        /\ PersistedTaskIds(files, ret'.flow, ret'.run) = {} =>
               ret'.record.task_id = <<1>>
        /\ PersistedTaskIds(files, ret'.flow, ret'.run) = {1} =>
               ret'.record.task_id = <<2>>]_vars

\* C11's case: the second create_task of a stored run has returned, and the run
\* holds the tasks "1" and "2"
C11_Witness ==
    /\ ret.op = "create_task"
    /\ <<ret.flow, ret.run>> \in DOMAIN files
    /\ ret.record.task_id = <<2>>
    /\ {p[4] : p \in {q \in DOMAIN files :
                  Len(q) = 4 /\ q[1] = ret.flow /\ q[2] = ret.run}} = {<<1>>, <<2>>}

\* the artifacts stored for the task with key path task
StoredFor(task) == {e[2] : e \in {x \in stored_artifacts : x[1] = task}}

\* C12: get_artifacts with attempt=k returns the stored artifacts of the task
\* whose attempt is k, all of them and nothing else.
C12_AttemptFilter ==
    [][(Called("get_artifacts") /\ ret'.attempt # NoFilter) =>
        ret'.result = {a \in StoredFor(ret'.task) : AttemptId(a) = ret'.attempt[1]}]_vars

\* C12's case: get_artifacts with attempt=1 returned an artifact of a task that
\* holds an artifact of attempt 0 too
C12_Witness ==
    /\ ret.op = "get_artifacts"
    /\ ret.attempt = Filter(1)
    /\ ret.result # {}
    /\ \E a \in StoredFor(ret.task) : AttemptId(a) = 0

\* C13: get_artifacts without an attempt returns the artifacts stored for the
\* task by register_artifacts, of every attempt, and nothing else; it returns
\* the empty list for a task without artifacts.
C13_ArtifactRoundTrip ==
    [][(Called("get_artifacts") /\ ret'.attempt = NoFilter) =>
        ret'.result = StoredFor(ret'.task)]_vars

\* C13's case is reached when get_artifacts without an attempt returns
\* something register_metadata wrote
C13_ReturnsMetadata ==
    /\ ret.op = "get_artifacts"
    /\ ret.attempt = NoFilter
    /\ \E e \in passed_metadata : e[1] = ret.task /\ e[2] \in ret.result

\* C14: when register_artifacts is given an artifact for a (task, attempt, name)
\* that holds one already, get_artifacts returns for that attempt and name the
\* artifact it returned before, and not the new one.
C14_ArtifactImmutable ==
    [][Called("register_artifacts") =>
        \A old \in StoredFor(ret'.task) :
            {a \in get_artifacts(files', ret'.task, Filter(AttemptId(old))) :
                a.name = old.name} = {old}]_vars

\* C14's case: register_artifacts was given another content for an attempt and
\* name of the task that held an artifact
C14_Witness ==
    /\ ret.op = "register_artifacts"
    /\ \E a \in Items(ret.artifacts), old \in StoredFor(ret.task) :
          /\ a # old
          /\ a \notin StoredFor(ret.task)
          /\ AttemptId(a) = AttemptId(old)
          /\ a.name = old.name

\* C15: every entry that was passed to register_metadata for a task is returned
\* by get_metadata of the task, whatever was registered after it, under the
\* same field name and in the same or the next millisecond included.
C15_MetadataAppendOnly ==
    \A e \in passed_metadata : e[2] \in get_metadata(files, e[1])

\* C15's case is reached when register_metadata returned and get_metadata does
\* not return an entry it was given
C15_EntryNotStored ==
    /\ ret.op = "register_metadata"
    /\ \E m \in Items(ret.metadata) : m \notin get_metadata(files, ret.task)

\* C16: mutate_tags on a run that exists returns the set (the tags of the run
\* union tags_to_add) minus tags_to_remove, and the run record holds that set
\* of tags after it.
C16_TagMutation ==
    [][(Called("mutate_tags") /\ <<ret'.flow, ret'.run>> \in DOMAIN files) =>
        LET final == (Items(files[<<ret'.flow, ret'.run>>].tags)
                        \cup Items(ret'.tags_to_add)) \ Items(ret'.tags_to_remove)
        IN  /\ ~ret'.raised
            /\ ret'.tags = final
            /\ Items(files'[<<ret'.flow, ret'.run>>].tags) = final]_vars

\* C16's case is reached when mutate_tags returned a tag that it was asked to
\* add and to remove
C16_AddedAndRemoved ==
    /\ ret.op = "mutate_tags"
    /\ ~ret.raised
    /\ \E t \in Items(ret.tags_to_add) \cap Items(ret.tags_to_remove) : t \in ret.tags

\* state.json holds a record whose pid is the pid of no live process
StaleRecord == state_file.kind = "state" /\ procs[state_file.pid].phase \in Ended

\* state.json holds a record whose pid is the pid of a live process
Running == state_file.kind = "state" /\ procs[state_file.pid].phase \notin Ended

\* C17: when the record exists and its pid is not alive, status() returns None
\* and leaves neither state.json nor the pid file behind.
C17_StatusSelfHeals ==
    [][(Called("status") /\ StaleRecord) =>
        /\ ret'.result = None
        /\ state_file' = NoFile
        /\ pid_file' = NoFile]_vars

\* C17's case: status() found the record of a dead daemon
C17_Witness ==
    /\ ret.op = "status"
    /\ ret.found = "state"
    /\ ret.result = None
    /\ state_file = NoFile
    /\ pid_file = NoFile

\* C18: while the record names a live daemon no process is spawned, and a
\* start() returns that record, whatever port, root and idle timeout it is
\* given, and leaves the record, the processes and itself as they were.
C18_StartNoopWhenRunning ==
    [][Running =>
        /\ DOMAIN procs' = DOMAIN procs
        /\ (Called("start") /\ \A c \in Clients : starter[c].phase = "idle") =>
              /\ ret'.outcome = "existing"
              /\ ret'.result = state_file
              /\ UNCHANGED daemonVars]_vars

\* C18's case: start() returned the record of the running daemon although it
\* was given another port and another root
C18_Witness ==
    /\ ret.op = "start"
    /\ ret.outcome = "existing"
    /\ ret.port \notin {0, ret.result.port}
    /\ ret.metaflow_root \notin {NoRoot, ret.result.metaflow_root}
    /\ ret.idle_timeout # _DEFAULT_IDLE_TIMEOUT

\* C19: a start() that polls ends: it never makes more failed polls than fit
\* before the deadline; it returns a state only in a turn of the loop in which
\* the liveness endpoint of the state's port answered; and when no poll
\* answered before the deadline it kills the process it spawned and raises.
C19_StartTerminates ==
    /\ \A c \in Clients : (starter[c].phase = "polling") ~> (starter[c].phase = "idle")
    /\ [](\A c \in Clients : starter[c].phase = "polling" => starter[c].polls <= MaxPolls)
    /\ [][\A c \in Clients :
            (Called("start") /\ starter[c].phase = "polling" /\ starter'[c].phase = "idle") =>
              /\ ret'.outcome \in {"reachable", "raised"}
              /\ ret'.outcome = "reachable" =>
                    /\ PingAnswers(procs, ret'.result.port)
                    /\ ret'.result = DaemonState(starter[c].pid, starter[c].port,
                                                  starter[c].root)
                    /\ ret'.polls < MaxPolls
                    /\ procs' = procs
              /\ ret'.outcome = "raised" =>
                    /\ ret'.polls = MaxPolls
                    /\ ret'.killed = starter[c].pid
                    /\ procs'[starter[c].pid].phase \in Ended]_vars

\* C19's case: no poll answered before the deadline, start() killed the
\* process it spawned and raised
C19_Witness ==
    /\ ret.op = "start"
    /\ ret.outcome = "raised"
    /\ ret.polls = MaxPolls
    /\ procs[ret.killed].phase = "dead"
    /\ \A c \in Clients : starter[c].phase = "idle"

\* C20: after stop() neither state.json nor the pid file exists, whatever they
\* held before, and stop() signals a process only if it is the live process of
\* the recorded pid.
C20_StopClearsRecord ==
    [][Called("stop") =>
        /\ state_file' = NoFile
        /\ pid_file' = NoFile
        /\ \A p \in ret'.signalled :
              state_file.kind = "state" /\ state_file.pid = p /\ procs[p].phase \notin Ended]_vars

\* C20's case is reached when stop() found a state.json it could not load
C20_GarbledRecordLeft ==
    /\ ret.op = "stop"
    /\ ret.found = "garbled"
    /\ ~ret.stopped
    /\ state_file = Garbled

Serving == {p \in DOMAIN procs : procs[p].phase = "serving"}

\* C24: whatever the clients call, and in whatever order their calls and the
\* steps of the daemons fall, at most one daemon is serving.
C24_SingleDaemon == Cardinality(Serving) <= 1

\* C24 fails where two clients called start() before a record was written:
\* each spawned a daemon, both daemons serve, and the record names one of them
C24_TwoDaemonsServe ==
    /\ Cardinality(Serving) = 2
    /\ state_file.kind = "state"
    /\ \A c \in Clients : starter[c].phase = "idle"
    /\ ret.op = "start"
    /\ ret.outcome = "reachable"

\* C22: once the daemon runs and heartbeats have stopped coming, whatever
\* other requests are served and whether or not a heartbeat ever came, the
\* monitor comes to a check that finds the silence longer than idle_timeout
\* and sets should_exit.
C22_IdleShutdown == (monitor.phase = "sleeping") ~> should_exit

\* C22's case: no heartbeat came since the start, other requests were served,
\* and the monitor asked for the shutdown after the default idle timeout
C22_Witness ==
    /\ should_exit
    /\ monitor.phase = "done"
    /\ monitor.idle_timeout = _DEFAULT_IDLE_TIMEOUT
    /\ last_heartbeat_at = 0
    /\ ret.op = "list_runs"

\* C23: a check of the monitor decides for the shutdown only when more than
\* idle_timeout seconds have passed since the last heartbeat served before
\* it, and should_exit is set only after such a check.
C23_NoEarlyShutdown ==
    [][/\ (monitor.phase = "sleeping" /\ monitor'.phase = "requesting") =>
              now - last_heartbeat_at > monitor.idle_timeout
       /\ (should_exit' /\ ~should_exit) =>
              /\ monitor.phase = "requesting"
              /\ monitor.silence > monitor.idle_timeout]_vars

\* C23's case: a heartbeat was served, the check made exactly idle_timeout
\* seconds after it did not ask for the shutdown, and the monitor sleeps again
C23_Witness ==
    /\ monitor.phase = "sleeping"
    /\ last_heartbeat_at > 0
    /\ monitor.wake = last_heartbeat_at + monitor.idle_timeout + MonitorInterval
    /\ ~should_exit

\* the routes that create on first use, that read one record, that always create
CreateOnceRoutes == {"http_create_flow", "http_create_step"}
GetRoutes == {"http_get_flow", "http_get_run", "http_get_step", "http_get_task"}
CreateAlwaysRoutes == {"http_create_run", "http_create_task"}

ReadOps ==
    GetRoutes \cup {"list_runs", "list_steps", "list_tasks", "get_artifacts", "get_metadata"}

\* the files at depth n of the tree below key
Below(key, n) ==
    {p \in DOMAIN files : Len(p) = n /\ SubSeq(p, 1, Len(key)) = key}

ParsableArtifacts(task, attempt) ==
    {files[p] : p \in {q \in MetaDirFiles(files, task) :
                          /\ ArtifactPattern(q[Len(q)], attempt)
                          /\ files[q] # Unparsable}}

\* C27: get_artifacts does not raise; it returns what the artifact files that
\* can be parsed hold and passes over the others.
C27_DamagedFilesSkipped ==
    [][Called("get_artifacts") =>
          /\ ~ret'.raised
          /\ ret'.result = ParsableArtifacts(ret'.task, ret'.attempt)]_vars

\* C27 fails where get_artifacts found a file it could not parse: it raised
C27_ReadRaised ==
    /\ ret.op = "get_artifacts"
    /\ ret.raised
    /\ ParsableArtifacts(ret.task, ret.attempt) # {}

\* the ids _next_task_id returned for the key in the running process, in the
\* order of the returns
ReturnedFor(key) ==
    LET Pick(i) == allocs[i][1] = key[1] /\ allocs[i][2] = key[2]
        idx == {i \in DOMAIN allocs : Pick(i)}
    IN  [n \in 1..Cardinality(idx) |->
            allocs[CHOOSE i \in idx : Cardinality({j \in idx : j <= i}) = n][3]]

\* C28: at most one thread is between the taking and the release of the
\* lock, and the ids _next_task_id returned for a key in the running process
\* are seed + 1, seed + 2, ... in the order of the returns, the seed being what
\* the one scan for the key found.
C28_AllocationAtomic ==
    /\ Cardinality({t \in ThreadIds :
                      threads[t].pc \in {"locked", "seeded", "incremented"}}) <= 1
    /\ \A i \in DOMAIN allocs : <<allocs[i][1], allocs[i][2]>> \in DOMAIN seeds
    /\ \A key \in DOMAIN seeds :
          \A n \in DOMAIN ReturnedFor(key) : ReturnedFor(key)[n] = seeds[key] + n

\* C28's case: two threads were inside create_task for one run at once, the
\* run was seeded from a disk that held tasks, and both got their ids
C28_Witness ==
    /\ \E key \in DOMAIN seeds : seeds[key] > 0 /\ Len(ReturnedFor(key)) >= 2
    /\ \A t \in ThreadIds : threads[t].pc = "saving"
    /\ \A t, u \in ThreadIds : threads[t].run = threads[u].run

\* C29: a key that has a counter keeps it until the process ends, so the disk
\* is scanned for it once; an allocation for a key that has a counter returns
\* the counter plus one whatever the disk holds; and an allocation changes the
\* counter of no other key.
C29_ScanOnce ==
    [][/\ ret'.op # "restart" => \A k \in DOMAIN task_counters : k \in DOMAIN task_counters'
       /\ Called("create_task") =>
            LET key == <<ret'.flow, ret'.run>>
            IN  /\ key \in DOMAIN task_counters =>
                      /\ ret'.record.task_id = DecStr(task_counters[key] + 1)
                      /\ task_counters'[key] = task_counters[key] + 1
                /\ DOMAIN task_counters' = DOMAIN task_counters \cup {key}
                /\ \A k \in DOMAIN task_counters \ {key} :
                      task_counters'[k] = task_counters[k]
      ]_vars

\* C29's case: an allocation for a key that had a counter, made when the disk
\* held a larger task id under the key than the counter, with another key
\* holding a counter too
C29_Witness ==
    /\ ret.op = "create_task"
    /\ ~ret.seeded
    /\ _scan_max_task_id(files, ret.flow, ret.run) > DecInt(ret.record.task_id)
    /\ \E k \in DOMAIN task_counters : k # <<ret.flow, ret.run>>

\* one mutation applied to a set of user tags: the removals, then the
\* additions that are not system tags
AppliedTo(tags, system, mutation) ==
    (tags \ Items(mutation.tags_to_remove)) \cup (Items(mutation.tags_to_add) \ system)

RECURSIVE AppliedInOrder(_, _, _)
AppliedInOrder(tags, system, mutations) ==
    IF mutations = <<>> THEN tags
    ELSE AppliedInOrder(AppliedTo(tags, system, Head(mutations)), system, Tail(mutations))

\* the orders in which the mutations served can be applied one after another
OrdersOf(mutations) ==
    {[i \in DOMAIN mutations |-> mutations[perm[i]]] :
        perm \in {q \in [DOMAIN mutations -> DOMAIN mutations] :
                    \A i, j \in DOMAIN mutations : i # j => q[i] # q[j]}}

\* C30: the user tags a run has on disk are, for one of the orders of the
\* mutations served for it, what applying them one after another to the tags
\* the run had before the first gives.
C30_TagMutationsSerialized ==
    tag_history.served # <<>> =>
        LET run == files[<<TaskFlow, tag_history.served[1].run>>]
        IN  \E order \in OrdersOf(tag_history.served) :
                Items(run.tags) =
                    AppliedInOrder(tag_history.initial, Items(run.system_tags), order)

\* C30's case: two mutations of one run were served, the first while the
\* handler of the second was in flight, and each left its mark on the tags
C30_Witness ==
    /\ Len(tag_history.served) = 2
    /\ tag_history.served[1].in_flight # {}
    /\ tag_history.served[1].tags_to_add # <<>>
    /\ tag_history.served[2].tags_to_add # <<>>
    /\ tag_history.served[1].tags_to_add # tag_history.served[2].tags_to_add
    /\ Items(tag_history.served[1].tags_to_add) \cup Items(tag_history.served[2].tags_to_add)
          \subseteq Items(files[<<TaskFlow, tag_history.served[1].run>>].tags)

\* C31: what a status() call finds in state.json is no file or a complete
\* record, never a file that is being written.
C31_RecordReadWhole ==
    ret.op = "status" => ret.found \in {"absent", "state"}

\* C31's case: status() ran between the open and the dump of a daemon's
\* _write_state, found a state.json it could not load and returned None while
\* the daemon that writes it is running
C31_PartialRecordRead ==
    /\ ret.op = "status"
    /\ ret.found = "garbled"
    /\ ret.result = None
    /\ \E p \in DOMAIN procs : procs[p].phase = "opened"

\* C32: a step changes the file at a path only by putting there the complete
\* record of a write that has finished its dump, so that a reader finds at
\* the path what was there before the write, or nothing, or the whole new
\* record, and a process killed inside a write leaves the path as it was.
C32_WritesAtomic ==
    [][/\ DOMAIN files \subseteq DOMAIN files'
       /\ \A key \in DOMAIN files' :
            (key \notin DOMAIN files \/ files'[key] # files[key]) =>
                /\ files'[key] # Unparsable
                /\ \E p \in WriterIds :
                      /\ writers[p].pc = "dumped"
                      /\ writers[p].key = key
                      /\ files'[key] = writers[p].record
                      /\ writers'[p].pc = "idle"
       /\ ret'.op = "crash_in_write" => files' = files
      ]_vars

\* C32's case: a process was killed while it dumped a record, its temporary
\* file holds a part of the record, and nothing is at the path
C32_Witness ==
    /\ ret.op = "crash_in_write"
    /\ ret.at = "writing"
    /\ temp_files[TempOf(ret.proc)] = Unparsable
    /\ ret.key \notin DOMAIN files

\* the processes that are inside a get_or_create call for the path
InFlight(key) == {p \in WriterIds : writers[p].pc # "idle" /\ writers[p].key = key}

C33_OnlyTagsMutateInPlace ==
    [][\A key \in DOMAIN files :
          /\ key \in DOMAIN files'
          /\ Len(key) \in {1, 3, 4} => files'[key] = files[key]
          /\ (Len(key) = 2 /\ files'[key] # files[key]) => ret'.op = "mutate_tags"
      ]_vars

\* C33's case: the flow, the run, the step and a task with an artifact and a
\* metadata entry exist, the tags of the run have been changed, and a second
\* creation of the flow with another body has been answered
C33_Witness ==
    /\ ret.op = "get_or_create_flow"
    /\ ~ret.created
    /\ ret.record # _build_flow_record(ret.flow, ret.body, StartWall)
    /\ \E key \in DOMAIN files :
          /\ Len(key) = 2
          /\ files[key].tags # EmptyBody.tags
          /\ files[key].tags # FullBody.tags
    /\ \E n \in 3..5 : \E key \in DOMAIN files : Len(key) = n

HeartbeatOps == {"run_heartbeat", "task_heartbeat"}

\* C34: a heartbeat request that is served, for a run or for a task, leaves
\* last_heartbeat_at at the time it was served, and no other request and no
\* step of the idle monitor changes last_heartbeat_at.
C34_HeartbeatsSetTimestamp ==
    [][/\ (Called("run_heartbeat") \/ Called("task_heartbeat")) =>
              last_heartbeat_at' = now
       /\ (monitor.phase # "none" /\ last_heartbeat_at' # last_heartbeat_at) =>
              ret'.op \in HeartbeatOps /\ ret' # ret
      ]_vars

\* C34's case: a task heartbeat was served later than the heartbeat before
\* it, after a request of another route had been served in between
C34_Witness ==
    /\ ret.op = "task_heartbeat"
    /\ last_heartbeat_at = now
    /\ now >= 2 * MonitorInterval
    /\ DOMAIN files # {}

\* C35: the exit flag, once set, stays set, and it is set exactly when the
\* loop of the idle monitor has ended, after which the monitor does nothing
\* more; and once the check has found the silence too long, no heartbeat
\* takes the monitor back to sleeping: it sets the flag or has set it.
C35_ShutdownNotCancellable ==
    [][/\ should_exit => should_exit'
       /\ should_exit' <=> monitor'.phase = "done"
       /\ monitor.phase = "done" => monitor' = monitor
       /\ monitor.phase = "requesting" => monitor'.phase \in {"requesting", "done"}
      ]_vars

\* C35's case: a heartbeat was served after the idle monitor had set the exit
\* flag, so that the silence is over, and the flag is still set
C35_Witness ==
    /\ ret.op \in HeartbeatOps
    /\ ret.should_exit
    /\ should_exit
    /\ last_heartbeat_at = now
    /\ monitor.phase = "done"

\* C38: with checks every 30 seconds, the idle monitor is never still
\* sleeping later than idle_timeout plus one interval after the last
\* heartbeat: the first check after the silence has passed idle_timeout asks
\* for the exit, and the exit flag follows with no time in between. And it
\* asks for no exit before its first check, however short idle_timeout is.
C38_BoundedResponse ==
    /\ monitor.phase = "sleeping" =>
          now - last_heartbeat_at <= monitor.idle_timeout + MonitorInterval
    /\ monitor.phase \in {"requesting", "done"} =>
          /\ monitor.silence <= monitor.idle_timeout + MonitorInterval
          /\ now >= MonitorInterval

\* C38's case: the check that asks for the exit comes a whole interval after
\* the silence reached idle_timeout, which is the latest it can come
C38_Witness ==
    /\ monitor.phase = "requesting"
    /\ last_heartbeat_at > 0
    /\ monitor.silence = monitor.idle_timeout + MonitorInterval

\* the same for an idle timeout shorter than the interval: the exit is asked
\* for at the first check and not before
C38_FirstCheck ==
    /\ monitor.phase = "requesting"
    /\ monitor.idle_timeout < MonitorInterval
    /\ now = MonitorInterval

\* C37: when a daemon runs to its end while state.json holds the record of
\* another daemon that is running, the record is still there afterwards.
C37_CleanupSparesOthers ==
    [][\A p \in DOMAIN procs :
          (/\ procs[p].phase \notin Ended
           /\ procs'[p].phase = "exited"
           /\ state_file.kind = "state"
           /\ state_file.pid # p
           /\ _is_alive(procs, state_file.pid)) => state_file' = state_file
      ]_vars

\* C37's case: a daemon that was stopped has run to its end after another
\* daemon had written its record, and the other daemon serves with no record
C37_RecordOfOtherRemoved ==
    /\ state_file = NoFile
    /\ pid_file = NoFile
    /\ \E p, q \in DOMAIN procs :
          /\ procs[p].phase = "exited"
          /\ procs[q].phase = "serving"

\* C39: the store is initialized at most once in a process, however the
\* setup calls of its threads interleave; once it is initialized the
\* datastore root is the .metaflow directory of the root of the call that
\* initialized it; and a setup call that returns after that, with whatever
\* root, returns without raising and has changed neither the datastore root
\* nor the directories on disk.
C39_SetupFirstCallWins ==
    [][/\ Len(initializations') <= 1
       /\ initialized' => /\ Len(initializations') = 1
                          /\ datastore_root' = MetaDir(initializations'[1])
       /\ initialized =>
              /\ initialized'
              /\ datastore_root' = datastore_root
              /\ metadirs' = metadirs
              /\ Called("setup") => ret'.noop
      ]_vars

\* C39's case: a setup call for another root, made while the first call was
\* initializing the store, has returned as a no-op, and the datastore root is
\* the first call's
C39_Witness ==
    /\ ret.op = "setup"
    /\ ret.noop
    /\ ret.early
    /\ initialized
    /\ ret.metaflow_root # initializations[1]
    /\ datastore_root = MetaDir(initializations[1])
    /\ MetaDir(ret.metaflow_root) \notin metadirs

====
